---- MODULE Spec2Model ----
(***************************************************************************)
(* Model of the ASAVE orchestration pipeline (main_orchestrator.py) and    *)
(* of the agents it drives (agents/*.py).                                  *)
(*                                                                         *)
(* Texts are sequences of tokens.  A token is one of the literal phrases   *)
(* the code searches for or splits on (a section header, the ambiguity     *)
(* sentinel in one casing, the word "Error", a list marker), a run of      *)
(* whitespace, or an ordinary word.  Python's `x in s` on such a phrase is *)
(* membership of the token in the sequence, s.split(x, 1) splits at the    *)
(* first occurrence of the token, and s.strip() drops the whitespace       *)
(* tokens at both ends.                                                    *)
(***************************************************************************)
EXTENDS Integers, Sequences, FiniteSets, TLC

\* ---------------------------------------------------------------- bounds
\* longest suggestion text the model's language model returns, in tokens
MaxSuggLen == 2

\* longest rule set a validate_shariah_compliance() call is given on its own
MaxRules == 3

\* most chunks a mined document has
MaxChunks == 2

\* most file names a batch is given
MaxBatch == 2

\* most calls made on the miner's private methods in one behaviour
MaxCalls == 2

\* number of placeholder names a generate() call draws its template and bindings from
NumNames == 3

\* ---------------------------------------------------------------- tokens
HdrRevised == "Revised Paragraph:"
HdrReasoning == "Reasoning & Shari'ah Alignment:"
SentinelExact == "No significant ambiguities found"
SentinelUpper == "NO SIGNIFICANT AMBIGUITIES FOUND"
SentinelLower == "no significant ambiguities found"
ErrorWord == "Error"
Marker1 == "1."
Marker2 == "2."
WS == " "
Word == "w"

\* ---------------------------------------------------------------- Python string operations
Contains(s, t) == \E i \in 1..Len(s) : s[i] = t

FirstIndex(s, t) == IF Contains(s, t) THEN CHOOSE i \in 1..Len(s) : s[i] = t /\ \A j \in 1..(i-1) : s[j] # t ELSE 0

\* s.split(t, 1)[-1]: what follows the first t, or all of s when t does not occur
SplitLast(s, t) == IF Contains(s, t) THEN SubSeq(s, FirstIndex(s, t) + 1, Len(s)) ELSE s

\* s.split(t, 1)[0]: what precedes the first t, or all of s when t does not occur
SplitFirst(s, t) == IF Contains(s, t) THEN SubSeq(s, 1, FirstIndex(s, t) - 1) ELSE s

RECURSIVE LStrip(_)
LStrip(s) == IF s # <<>> /\ Head(s) = WS THEN LStrip(Tail(s)) ELSE s

RECURSIVE RStrip(_)
RStrip(s) == IF s # <<>> /\ s[Len(s)] = WS THEN RStrip(SubSeq(s, 1, Len(s) - 1)) ELSE s

\* s.strip()
Strip(s) == RStrip(LStrip(s))

\* the k-th smallest element of a set of positions
Nth(S, k) == CHOOSE p \in S : Cardinality({q \in S : q < p}) = k - 1

\* bool(s) of a str: the empty string is falsy
Truthy(s) == s # <<>>

\* all sequences over alphabet A of length at most n
SeqUpTo(A, n) == UNION {[1..k -> A] : k \in 0..n}

\* ---------------------------------------------------------------- Python values
None == [none |-> TRUE]

\* None where the other values are strings (a file name)
NoName == "<None>"

\* dict.get(key, default)
Get(d, key, default) == IF key \in DOMAIN d THEN d[key] ELSE default

\* ---------------------------------------------------------------- BaseAgent (the language-model client)
\* What the backend does with one request: it answers with a text, or it throws
\* an exception whose message is msg.
ExcMsgs == {<<"quota exceeded">>}

Backends(texts) == {[throws |-> FALSE, text |-> t] : t \in texts} \cup {[throws |-> TRUE, text |-> m] : m \in ExcMsgs}

ErrorTextEmpty(msg) == <<>>

\* f"Error: {e}"
ErrorText(msg) == <<ErrorWord>> \o msg

\* the message of the KeyError the prompt raises inside chain.invoke for an unbound placeholder
MissingVarMsg == <<"KeyError: missing input variable">>

\* An exception that leaves a function, as a value
Raise(kind) == [exc |-> kind]

IsRaise(r) == "exc" \in DOMAIN r

\* create_chain: the chain remembers the placeholders of its template
CreateChain(template_vars) == [template_vars |-> template_vars]

\* invoke_chain without its try/except: the exception of chain.invoke leaves the method
InvokeChainNoCatch(chain, kwargs, backend) ==
    IF ~(chain.template_vars \subseteq DOMAIN kwargs) THEN Raise("KeyError")
    ELSE IF backend.throws THEN Raise("BackendError")
    ELSE [text |-> backend.text]

\* invoke_chain: chain.invoke formats the prompt (an unbound placeholder raises
\* there) and calls the backend; every exception becomes an error-flagged result
InvokeChain(chain, kwargs, backend) ==
    IF ~(chain.template_vars \subseteq DOMAIN kwargs) THEN [text |-> ErrorText(MissingVarMsg), error |-> TRUE]
    ELSE IF backend.throws THEN [text |-> ErrorText(backend.text), error |-> TRUE]
    ELSE [text |-> backend.text]

\* generate = create_chain, then invoke_chain
Generate(template_vars, kwargs, backend) == InvokeChain(CreateChain(template_vars), kwargs, backend)

\* one entry of the log of external calls
GenCall(agent, kwargs, backend) == [op |-> "generate", agent |-> agent, bindings |-> kwargs, failed |-> backend.throws, backend |-> backend]

SearchCall(agent, store, outcome) == [op |-> "search", agent |-> agent, store |-> store, outcome |-> outcome]

\* ---------------------------------------------------------------- ExtractionAgent, SuggestionAgent
ExtractionAgentFirstCorpus(vector_store) == [vector_store |-> [doc |-> "fas_32_ijarah.pdf"]]

ExtractionAgent(vector_store) == [vector_store |-> vector_store]

find_ambiguities(text_chunk, backend) ==
    Generate({"standard_text_chunk"}, [standard_text_chunk |-> text_chunk], backend)

SuggestionAgent == [agent |-> "SuggestionAgent"]

ClarificationArgs(original_text, identified_ambiguity, fas_context, ss_context) ==
    [original_text |-> original_text, identified_ambiguity |-> identified_ambiguity,
     fas_context |-> fas_context, ss_context |-> ss_context]

generate_clarification(original_text, identified_ambiguity, fas_context, ss_context, backend) ==
    Generate({"original_text", "identified_ambiguity", "fas_context", "ss_context"},
             ClarificationArgs(original_text, identified_ambiguity, fas_context, ss_context), backend)

\* ---------------------------------------------------------------- retrieval
\* What a similarity search gives: a list of page contents, or an exception.
SearchOutcomes == {[raises |-> FALSE, docs |-> <<>>], [raises |-> FALSE, docs |-> <<"chunk">>], [raises |-> TRUE, docs |-> <<>>]}

\* "\n---\n".join([f"{label}:\n{doc.page_content}" for doc in docs])
RECURSIVE JoinExcerpts(_, _)
JoinExcerpts(label, docs) ==
    IF docs = <<>> THEN <<>>
    ELSE IF Len(docs) = 1 THEN label \o <<docs[1]>>
    ELSE label \o <<docs[1], "---">> \o JoinExcerpts(label, Tail(docs))

\* ---------------------------------------------------------------- ValidationAgent
\* A rule is a JSON object (a function from keys to strings); its
\* validation_query_template is a sequence of template tokens:
\*   [kind |-> "lit", v |-> word]       literal text
\*   [kind |-> "field", v |-> name]     the replacement field {name}
\*   [kind |-> "escaped", v |-> name]   {{name}}: braces escaped for str.format
Lit(w) == [kind |-> "lit", v |-> w]

Field(name) == [kind |-> "field", v |-> name]

Escaped(name) == [kind |-> "escaped", v |-> name]

\* "Assess if '{clause_text}' conflicts with Shari'ah principle: {description} (Ref: {ref})."
DefaultRuleTemplate == <<Lit("Assess if"), Field("clause_text"), Lit("conflicts with Shari'ah principle:"), Field("description"), Lit("Ref:"), Field("ref")>>

\* the rule set is loaded once, when the agent is built; a file that cannot be
\* read or decoded leaves the rule set empty
ValidationAgent(rules_file_content, ss_vector_store, fas_vector_store) ==
    [explicit_rules |-> rules_file_content, ss_retriever |-> ss_vector_store, fas_retriever |-> fas_vector_store]

\* re.findall(r'\{(\w+)\}', template): the names between braces, also inside {{name}}
get_placeholders(template) == {template[i].v : i \in {j \in 1..Len(template) : template[j].kind \in {"field", "escaped"}}}

CurrentArgsAll(rule, template, proposed_text, specific_aspect) == [ph \in get_placeholders(template) |-> <<"N/A">>]

\* current_args of one rule: the placeholders of its template the agent can fill
CurrentArgs(rule, template, proposed_text, specific_aspect) ==
    [ph \in get_placeholders(template) \cap {"clause_text", "specific_aspect", "description", "ref"} |->
        CASE ph = "clause_text" -> proposed_text
          [] ph = "specific_aspect" -> specific_aspect
          [] ph = "description" -> <<Get(rule, "description", "N/A")>>
          [] ph = "ref" -> <<Get(rule, "standard_ref", "N/A")>>]

\* template.format(**args): the text, or the KeyError of the first replacement
\* field that args does not bind
RECURSIVE FormatTemplate(_, _)
FormatTemplate(template, args) ==
    IF template = <<>> THEN [ok |-> TRUE, text |-> <<>>]
    ELSE LET tok == Head(template)
             rest == FormatTemplate(Tail(template), args)
         IN  IF tok.kind = "field" /\ tok.v \notin DOMAIN args THEN [ok |-> FALSE, exc |-> "KeyError", key |-> tok.v]
             ELSE IF ~rest.ok THEN rest
             ELSE [ok |-> TRUE,
                   text |-> (CASE tok.kind = "lit" -> <<tok.v>>
                               [] tok.kind = "escaped" -> <<"{", tok.v, "}">>
                               [] tok.kind = "field" -> args[tok.v]) \o rest.text]

\* f"\nCheck against Rule '{rule.get('rule_id')}' ({rule.get('description')}):\nAssessment: "
RuleHeader(rule) == <<"Check against Rule", Get(rule, "rule_id", "None"), Get(rule, "description", "None"), "Assessment:">>

\* the loop over the explicit rules, from rule i on: the report and the calls made
RECURSIVE RuleLoop(_, _, _, _, _, _, _)
RuleLoop(rules, i, proposed_text, specific_aspect, rule_backends, report, log) ==
    IF i > Len(rules) THEN [report |-> report, calls |-> log]
    ELSE LET rule == rules[i]
             current_template == Get(rule, "validation_query_template", DefaultRuleTemplate)
             current_args == CurrentArgs(rule, current_template, proposed_text, specific_aspect)
             query == FormatTemplate(current_template, current_args)
             kwargs == [query |-> query.text]
             assessment_result == Generate({"query"}, kwargs, rule_backends[i])
         IN  IF ~query.ok
             THEN RuleLoop(rules, i + 1, proposed_text, specific_aspect, rule_backends,
                           report \o RuleHeader(rule) \o <<ErrorWord, "formatting query - missing key", query.key>>, log)
             ELSE RuleLoop(rules, i + 1, proposed_text, specific_aspect, rule_backends,
                           report \o RuleHeader(rule) \o assessment_result.text,
                           Append(log, GenCall("SCVA rule", kwargs, rule_backends[i])))

NoSSContext == <<"No relevant Shari'ah Standard context automatically retrieved.">>

\* the retrieval of validate_shariah_compliance, inside its try/except
ScvaContext(agent, search) ==
    IF agent.ss_retriever = None THEN NoSSContext
    ELSE IF search.raises THEN <<ErrorWord, "retrieving SS context">>
    ELSE JoinExcerpts(<<"Source Chunk">>, search.docs)

ValidateRulesOnly(agent, proposed_text, specific_aspect, rule_backends, search, backend) ==
    LET loop == RuleLoop(agent.explicit_rules, 1, proposed_text, specific_aspect, rule_backends, <<>>, <<>>)
    IN  [ret |-> [text |-> loop.report], calls |-> loop.calls]

\* validate_shariah_compliance: the result of the overall call and the calls made
validate_shariah_compliance(agent, proposed_text, specific_aspect, rule_backends, search, backend) ==
    LET loop == RuleLoop(agent.explicit_rules, 1, proposed_text, specific_aspect, rule_backends, <<>>, <<>>)
        ss_context == ScvaContext(agent, search)
        kwargs == [proposed_text |-> proposed_text, specific_aspect_under_review |-> specific_aspect,
                   explicit_rules_assessment_str |-> loop.report, shariah_standard_context |-> ss_context]
    IN  [ret |-> Generate({"proposed_text", "specific_aspect_under_review", "explicit_rules_assessment_str", "shariah_standard_context"}, kwargs, backend),
         calls |-> loop.calls
                   \o (IF agent.ss_retriever = None THEN <<>> ELSE <<SearchCall("SCVA", agent.ss_retriever, search)>>)
                   \o <<GenCall("SCVA", kwargs, backend)>>]

NoFASContext == <<"No other FAS context automatically retrieved for consistency check.">>

\* the retrieval of validate_inter_standard_consistency, inside its try/except
IsccaContext(agent, search) ==
    IF agent.fas_retriever = None THEN NoFASContext
    ELSE IF search.raises THEN <<ErrorWord, "retrieving other FAS context">>
    ELSE JoinExcerpts(<<"Relevant excerpt from another FAS">>, search.docs)

validate_inter_standard_consistency(agent, proposed_text, fas_name, search, backend) ==
    LET fas_context == IsccaContext(agent, search)
        kwargs == [proposed_text |-> proposed_text, fas_name |-> fas_name, other_fas_context |-> fas_context]
    IN  [ret |-> Generate({"proposed_text", "fas_name", "other_fas_context"}, kwargs, backend),
         calls |-> (IF agent.fas_retriever = None THEN <<>> ELSE <<SearchCall("ISCCA", agent.fas_retriever, search)>>)
                   \o <<GenCall("ISCCA", kwargs, backend)>>]

\* ---------------------------------------------------------------- ShariahRuleMinerAgent: candidate extraction
\* A generation text of the miner is a sequence of tokens; each token stands
\* for the characters of its string, so a line is as long as its tokens together.
NL == "\n"

Dash == "-"

MinerSentinelExact == "No explicit rules found"

MinerSentinelLower == "no explicit rules found"

\* str.lower(), token by token
LowerTok(t) ==
    CASE t \in {MinerSentinelExact, "NO EXPLICIT RULES FOUND"} -> MinerSentinelLower
      [] t \in {"It", "IT"} -> "it"
      [] t = "Standard" -> "standard"
      [] t = "No." -> "no."
      [] t = ErrorWord -> "error"
      [] OTHER -> t

Lower(s) == [i \in 1..Len(s) |-> LowerTok(s[i])]

\* str.splitlines()
RECURSIVE SplitLines(_)
SplitLines(s) ==
    IF s = <<>> THEN <<>>
    ELSE IF ~Contains(s, NL) THEN <<s>>
    ELSE <<SubSeq(s, 1, FirstIndex(s, NL) - 1)>> \o SplitLines(SubSeq(s, FirstIndex(s, NL) + 1, Len(s)))

\* len() of a str
RECURSIVE CharLen(_)
CharLen(s) == IF s = <<>> THEN 0 ELSE Len(Head(s)) + CharLen(Tail(s))

CleanLineKeepMarker(line) == Strip(line)

\* lines 40-42: the line trimmed, one leading "- " removed, trimmed again
CleanLine(line) ==
    LET stripped == Strip(line)
    IN  IF Len(stripped) >= 2 /\ stripped[1] = Dash /\ stripped[2] = WS
        THEN Strip(SubSeq(stripped, 3, Len(stripped)))
        ELSE stripped

\* lines 38-44: the lines kept as candidate rule sentences
PotentialRules(raw_rules_text) ==
    LET lines == SplitLines(raw_rules_text)
    IN  SelectSeq([i \in 1..Len(lines) |-> CleanLine(lines[i])], LAMBDA line : Truthy(line) /\ CharLen(line) > 15)

\* line 37: the needle is written in mixed case, the text it is looked up in is lower-cased
SentinelGuard(raw_rules_text) == ~Contains(Lower(raw_rules_text), MinerSentinelExact)

ExtractionArgs(text_chunk, standard_name) == [text_chunk |-> text_chunk, standard_name |-> standard_name]

\* _extract_potential_rules_from_chunk: the candidate sentences of one chunk
extract_potential_rules_from_chunk(text_chunk, standard_name, backend) ==
    LET response == Generate({"text_chunk", "standard_name"}, ExtractionArgs(text_chunk, standard_name), backend)
        raw_rules_text == Get(response, "text", <<>>)
    IN  IF SentinelGuard(raw_rules_text) THEN PotentialRules(raw_rules_text) ELSE <<>>

\* ---------------------------------------------------------------- ShariahRuleMinerAgent: normalization
\* line 71 of the miner, as the model reads it once the prompt is rendered:
\* "Does the proposed accounting treatment in '{clause_text}' align with the
\* Shari'ah rule: '{rule_description}'? Explain discrepancies."
MinerInstructedTemplate ==
    <<Lit("Does the proposed accounting treatment in"), Field("clause_text"), Lit("align with the Shari'ah rule:"),
      Field("rule_description"), Lit("? Explain discrepancies.")>>

\* line 101 of the miner, a plain string: the braces stay doubled in the stored rule
MinerDefaultTemplate ==
    <<Lit("Does the proposed accounting treatment in"), Escaped("clause_text"), Lit("align with the Shari'ah rule:"),
      Escaped("rule_description"), Lit("? Explain discrepancies.")>>

\* JSON values: strings (token sequences; a string that holds a query template
\* keeps the template), arrays, null ([t |-> "null"]); a JSON object is a
\* function from keys to values
JStr(s) == [t |-> "str", s |-> s]

JTemplate(template) == [t |-> "str", template |-> template]

JList(items) == [t |-> "list", items |-> items]

\* bool(v) of a decoded value
JTruthy(v) ==
    CASE v.t = "str" -> IF "s" \in DOMAIN v THEN v.s # <<>> ELSE v.template # <<>>
      [] v.t = "list" -> v.items # <<>>
      [] v.t = "null" -> FALSE

\* the code-fence markers of a model output (three backquotes in the source),
\* with and without the json tag
FenceJson == "~~~json"

Fence == "~~~"

\* the JSON documents a model output can hold, by the token that stands for them
JsonObjects ==
    [doc \in {"{five fields}", "{}", "{empty values}", "{null keywords, no id}", "{string keywords}"} |->
        CASE doc = "{five fields}" ->
                [rule_id |-> JStr(<<"SS9_NO_SALE_BEFORE_POSSESSION">>), standard_ref |-> JStr(<<"SS 9: Ijarah [Clause X.Y]">>),
                 principle_keywords |-> JList(<<"ijarah">>), description |-> JStr(<<"restated rule">>),
                 validation_query_template |-> JTemplate(MinerInstructedTemplate)]
          [] doc = "{}" -> <<>>
          [] doc = "{empty values}" ->
                [rule_id |-> JStr(<<>>), standard_ref |-> JStr(<<>>), principle_keywords |-> JList(<<>>),
                 description |-> JStr(<<>>), validation_query_template |-> JStr(<<>>)]
          [] doc = "{null keywords, no id}" ->
                [standard_ref |-> JStr(<<"SS 9: Ijarah [Clause X.Y]">>), principle_keywords |-> [t |-> "null"],
                 description |-> JStr(<<"restated rule">>), validation_query_template |-> JTemplate(MinerInstructedTemplate), note |-> JStr(<<"extra">>)]
          [] doc = "{string keywords}" ->
                [rule_id |-> JStr(<<"SS9_LEASE_TERM">>), standard_ref |-> JStr(<<"SS 9: Ijarah [Clause X.Y]">>),
                 principle_keywords |-> JStr(<<"ijarah, lease">>), description |-> JStr(<<"restated rule">>),
                 validation_query_template |-> JTemplate(MinerInstructedTemplate)]]

\* s.strip() of a text with line breaks
RECURSIVE StripAll(_)
StripAll(s) ==
    IF s # <<>> /\ Head(s) \in {WS, NL} THEN StripAll(Tail(s))
    ELSE IF s # <<>> /\ s[Len(s)] \in {WS, NL} THEN StripAll(SubSeq(s, 1, Len(s) - 1))
    ELSE s

\* line 93: s.strip()[3:-3].strip() of a text that starts with the three-character
\* fence; a last token of another length loses its end ("<cut>")
Unfence(s) ==
    LET t == StripAll(s)
    IN  IF Len(t) = 1 THEN <<>>
        ELSE IF Len(t[Len(t)]) = 3 THEN StripAll(SubSeq(t, 2, Len(t) - 1))
        ELSE StripAll(SubSeq(t, 2, Len(t) - 1) \o <<"<cut>">>)

\* json.loads: the decoded document (an object, or an array, a number, null),
\* or JSONDecodeError
JsonLoads(s) ==
    LET t == StripAll(s)
    IN  IF Len(t) = 1 /\ t[1] \in DOMAIN JsonObjects THEN [ok |-> TRUE, object |-> TRUE, value |-> JsonObjects[t[1]]]
        ELSE IF Len(t) = 1 /\ t[1] \in {"[]", "42", "null"} THEN [ok |-> TRUE, object |-> FALSE]
        ELSE [ok |-> FALSE]

\* s[:n] of a text: the text itself when it is short enough, else its first n characters
Slice(s, n) == IF CharLen(s) <= n THEN s ELSE <<"[:" \o ToString(n) \o "]">> \o s

\* "".join(tokens)
RECURSIVE Concat(_)
Concat(s) == IF s = <<>> THEN "" ELSE Head(s) \o Concat(Tail(s))

\* line 49-50: the digits after "Standard No. (", in any casing, or "SS_Unknown"
StandardNumber(standard_name) ==
    LET low == Lower(standard_name)
        hits == {i \in 1..(Len(low) - 6) :
                    /\ SubSeq(low, i, i + 4) = <<"standard", WS, "no.", WS, "(">>
                    /\ low[i + 5] \in {"9", "09", "32"}
                    /\ low[i + 6] = ")"}
    IN  IF hits = {} THEN "SS_Unknown" ELSE standard_name[Nth(hits, 1) + 5]

\* lines 51-52: what the first pair of brackets holds, blanks turned into "_";
\* without brackets, the last blank-separated word
RECURSIVE LastWord(_)
LastWord(s) == IF Contains(s, WS) THEN LastWord(SplitLast(s, WS)) ELSE s

StandardTopic(standard_name) ==
    LET opens == {i \in 1..(Len(standard_name) - 2) :
                    /\ standard_name[i] = "("
                    /\ standard_name[i + 1] # ")"
                    /\ \E j \in (i + 2)..Len(standard_name) : standard_name[j] = ")"}
        open == Nth(opens, 1)
        close == open + FirstIndex(SubSeq(standard_name, open + 1, Len(standard_name)), ")")
        inside == SubSeq(standard_name, open + 1, close - 1)
    IN  IF opens = {} THEN LastWord(standard_name)
        ELSE [i \in 1..Len(inside) |-> IF inside[i] = WS THEN "_" ELSE inside[i]]

\* line 53: "SS<number>_<topic[:15]>" without brackets
StandardNameShort(standard_name) ==
    "SS" \o StandardNumber(standard_name) \o "_"
         \o Concat(SelectSeq(Slice(StandardTopic(standard_name), 15), LAMBDA t : t \notin {"(", ")"}))

\* str.upper(), token by token
UpperTok(t) ==
    CASE t \in {"It", "it"} -> "IT"
      [] t = "is" -> "IS"
      [] t = "in" -> "IN"
      [] t = "chunk" -> "CHUNK"
      [] t = "short" -> "SHORT"
      [] t = "quota exceeded" -> "QUOTA EXCEEDED"
      [] t \in {MinerSentinelExact, MinerSentinelLower} -> "NO EXPLICIT RULES FOUND"
      [] t = "Riba" -> "RIBA"
      [] t = "unlawful" -> "UNLAWFUL"
      [] t = "illegal" -> "ILLEGAL"
      [] t = "don" -> "DON"
      [] t = "t" -> "T"
      [] t = "not" -> "NOT"
      [] t = "permitted" -> "PERMITTED"
      [] t = "sell" -> "SELL"
      [] t = "lease" -> "LEASE"
      [] t = "goods" -> "GOODS"
      [] t = ErrorWord -> "ERROR"
      [] OTHER -> t

\* the blank-separated words of one token, upper-cased
TokWords(t) ==
    CASE t \in {MinerSentinelExact, MinerSentinelLower, "NO EXPLICIT RULES FOUND"} -> <<"NO", "EXPLICIT", "RULES", "FOUND">>
      [] t = "quota exceeded" -> <<"QUOTA", "EXCEEDED">>
      [] OTHER -> <<UpperTok(t)>>

\* re.sub(r'[^a-zA-Z0-9_ ]', '', ...).split(): the words of a text; a character
\* that is no letter, digit, "_" or blank is removed (a line break too), and
\* what no blank separates makes one word
RECURSIVE SplitWords(_, _)
SplitWords(s, word) ==
    IF s = <<>> THEN (IF word = "" THEN <<>> ELSE <<word>>)
    ELSE IF Head(s) = WS THEN (IF word = "" THEN <<>> ELSE <<word>>) \o SplitWords(Tail(s), "")
    ELSE IF Head(s) \in {NL, Dash, ".", ",", ":", "(", ")", "'"} THEN SplitWords(Tail(s), word)
    ELSE LET ws == TokWords(Head(s))
         IN  IF Len(ws) = 1 THEN SplitWords(Tail(s), word \o ws[1])
             ELSE <<word \o ws[1]>> \o SubSeq(ws, 2, Len(ws) - 1) \o SplitWords(Tail(s), ws[Len(ws)])

\* "_".join(words)
RECURSIVE JoinWords(_)
JoinWords(words) ==
    IF words = <<>> THEN ""
    ELSE IF Len(words) = 1 THEN words[1]
    ELSE words[1] \o "_" \o JoinWords(Tail(words))

FirstFewWordsAll(rule_text) == JoinWords(SplitWords(rule_text, ""))

\* line 56: the first four words of the sentence, upper-cased, joined by "_"
FirstFewWords(rule_text) ==
    LET words == SplitWords(rule_text, "")
    IN  JoinWords(SubSeq(words, 1, IF Len(words) < 4 THEN Len(words) ELSE 4))

\* line 57
GeneratedRuleId(rule_text, standard_name) ==
    IF FirstFewWords(rule_text) # "" THEN StandardNameShort(standard_name) \o "_" \o FirstFewWords(rule_text)
    ELSE StandardNameShort(standard_name) \o "_RULE"

\* lines 97-101
KeysToEnsure(rule_text, standard_name) ==
    [rule_id |-> JStr(<<GeneratedRuleId(rule_text, standard_name) \o "_TODO">>),
     standard_ref |-> JStr(standard_name \o <<WS, "[Clause TODO]">>),
     principle_keywords |-> JList(<<>>),
     description |-> JStr(<<"TODO:", WS>> \o rule_text),
     validation_query_template |-> JTemplate(MinerDefaultTemplate)]

EnsureKeysMissingOnly(formatted_rule, keys_to_ensure) ==
    [key \in DOMAIN formatted_rule \cup DOMAIN keys_to_ensure |->
        IF key \in DOMAIN formatted_rule THEN formatted_rule[key] ELSE keys_to_ensure[key]]

\* lines 102-107: a missing or falsy key takes its default, but a list is kept
\* as the value of principle_keywords even when empty
EnsureKeys(formatted_rule, keys_to_ensure) ==
    [key \in DOMAIN formatted_rule \cup DOMAIN keys_to_ensure |->
        IF /\ key \in DOMAIN keys_to_ensure
           /\ (key \notin DOMAIN formatted_rule \/ ~JTruthy(formatted_rule[key]))
           /\ ~(key = "principle_keywords" /\ key \in DOMAIN formatted_rule /\ formatted_rule[key].t = "list")
        THEN keys_to_ensure[key]
        ELSE formatted_rule[key]]

FormatArgs(rule_text, standard_name, original_chunk_ref) ==
    [rule_text |-> rule_text, standard_name |-> standard_name, original_chunk_ref_snippet |-> Slice(original_chunk_ref, 80),
     generated_rule_id_prefix |-> GeneratedRuleId(rule_text, standard_name),
     standard_number |-> StandardNumber(standard_name), standard_topic_name |-> StandardTopic(standard_name)]

\* _format_rule_to_json_structure: the rule, None, or the exception that leaves it
format_rule_to_json_structure(rule_text, standard_name, original_chunk_ref, backend) ==
    LET response == Generate({"rule_text", "standard_name", "original_chunk_ref_snippet", "generated_rule_id_prefix",
                              "standard_number", "standard_topic_name"},
                             FormatArgs(rule_text, standard_name, original_chunk_ref), backend)
        json_text_output == Get(response, "text", <<"{}">>)
        stripped == StripAll(json_text_output)
    IN  IF stripped # <<>> /\ stripped[1] = FenceJson
        THEN Raise("AttributeError")
        ELSE LET formatted_rule == JsonLoads(IF stripped # <<>> /\ stripped[1] = Fence THEN Unfence(json_text_output)
                                             ELSE json_text_output)
             IN  IF ~formatted_rule.ok THEN None
                 ELSE IF ~formatted_rule.object THEN Raise("TypeError")
                 ELSE EnsureKeys(formatted_rule.value, KeysToEnsure(rule_text, standard_name))

\* ---------------------------------------------------------------- main_orchestrator: state
VARIABLES
    doc_processor_global,        \* None, or the DocumentProcessor
    fas_vector_store_global,     \* None, or the store built from a FAS document
    ss_vector_store_global,      \* None, or the store built from an SS document
    extraction_agent_global,     \* None, or the ExtractionAgent
    suggestion_agent_global,     \* None, or the SuggestionAgent
    validation_agent_global,     \* None, or the ValidationAgent
    current_fas_filename_global, \* NoName, or the file name the FAS store was built from
    current_ss_filename_global,  \* NoName, or the file name the SS store was built from
    init_ret,                    \* what the last initialize_components call returned (None before the first)
    init_args,                   \* the file names that call was given (None before the first)
    rules_file,                  \* the content of the explicit rules file
    pc,                          \* where run_asave_orchestration_flow stands
    section_text_to_analyze,     \* its first argument
    fas_name_for_display,        \* its second argument
    results,                     \* its dict `results` (the value it returns)
    calls,                       \* the external calls it has made, in order
    exc,                         \* None, or the call whose exception left it
    gen_in,                      \* a generate() call: template placeholders, bindings, backend behaviour
    gen_out,                     \* None, or what that call gave
    val_in,                      \* a validate_shariah_compliance() call: the agent, its arguments, the backend behaviour
    val_out,                     \* None, or what that call gave and the calls it made
    unit_calls,                  \* the calls made on the miner's two private methods, each with what it returned
    miner_pc,                    \* where mine_rules_from_document stands
    document_chunks,             \* its first argument
    standard_name,               \* its second argument
    chunk_i,                     \* the chunk its outer loop is at
    potential_rules_texts,       \* the candidate sentences of that chunk
    rule_j,                      \* the candidate its inner loop is at
    all_formatted_rules,         \* its list all_formatted_rules (the value it returns)
    miner_calls,                 \* the generation calls it has made, in order
    miner_exc,                   \* None, or the exception that left it
    shariah_rule_miner_agent_global, \* None, or the ShariahRuleMinerAgent
    ss_corpus,                   \* per SS file of data_pdf: whether it can be loaded, and the rules mining it gives
    output_files,                \* the files of the output directory, by name
    batch_pc,                    \* where run_srma_on_selected_ss_files stands
    ss_document_filenames,       \* the list mine_rules_from_document_list is given
    file_k,                      \* the file its loop is at
    all_mined_rules_combined,    \* its list all_mined_rules_combined
    batch_ret,                   \* None, or the value returned
    batch_exc                    \* None, or the exception that left it

globals == <<doc_processor_global, fas_vector_store_global, ss_vector_store_global, extraction_agent_global,
             suggestion_agent_global, validation_agent_global, current_fas_filename_global,
             current_ss_filename_global, init_ret, init_args>>

run == <<pc, section_text_to_analyze, fas_name_for_display, results, calls, exc>>

pure == <<gen_in, gen_out, val_in, val_out, unit_calls>>

mining == <<miner_pc, document_chunks, standard_name, chunk_i, potential_rules_texts, rule_j, all_formatted_rules,
            miner_calls, miner_exc>>

batching == <<shariah_rule_miner_agent_global, ss_corpus, output_files, batch_pc, ss_document_filenames, file_k,
              all_mined_rules_combined, batch_ret, batch_exc>>

vars == <<globals, rules_file, run, pure, mining, batching>>

\* ---------------------------------------------------------------- main_orchestrator: pure parts
GenericFocus == <<"General review for clarity, Shari'ah alignment, and potential enhancement of the provided text.">>

\* lines 154-159: the focus handed to the suggestion agent
DeriveFocus(keea_raw) ==
    IF Contains(keea_raw, SentinelExact) \/ Contains(keea_raw, ErrorWord) THEN GenericFocus
    ELSE LET first_ambiguity_line == Strip(SplitFirst(SplitLast(keea_raw, Marker1), Marker2))
         IN  IF Truthy(first_ambiguity_line) THEN first_ambiguity_line ELSE keea_raw

ParseErrSuggestedNoError == <<"AISGA", "Could not parse suggested text.">>

\* "AISGA Error: Could not parse suggested text."
ParseErrSuggested == <<"AISGA", ErrorWord, "Could not parse suggested text.">>

\* "AISGA Error: Could not parse reasoning."
ParseErrReasoning == <<"AISGA", ErrorWord, "Could not parse reasoning.">>

\* lines 189-196: the revised text and the reasoning parsed out of the suggestion
ParseSuggestion(aisga_full_text) ==
    IF Contains(aisga_full_text, HdrRevised) /\ Contains(aisga_full_text, HdrReasoning)
    THEN LET temp_split == SplitLast(aisga_full_text, HdrRevised)
         IN  [suggested_text |-> Strip(SplitFirst(temp_split, HdrReasoning)),
              suggestion_reasoning |-> Strip(SplitLast(temp_split, HdrReasoning))]
    ELSE IF Contains(aisga_full_text, HdrRevised)
    THEN [suggested_text |-> Strip(SplitLast(aisga_full_text, HdrRevised)), suggestion_reasoning |-> ParseErrReasoning]
    ELSE [suggested_text |-> ParseErrSuggested, suggestion_reasoning |-> ParseErrReasoning]

\* line 202: the halt test
SuggestionFailed(suggested_text) == Contains(suggested_text, ErrorWord)

\* results[key] = value
Put(d, key, value) == (key :> value) @@ d

NotInitializedError == <<"Core components not initialized. Please select and load standards via the UI.">>

HaltError == <<"AISGA failed to generate a parsable suggestion.">>

HaltResultNoError(res) == res

HaltResultPlaceholders(res) ==
    Put(Put(Put(res, "error", HaltError), "shariah_validation_by_scva", <<"SCVA", ErrorWord, "No Shari'ah assessment generated.">>),
        "consistency_validation_by_iscca", <<"ISCCA", ErrorWord, "No consistency assessment generated.">>)

\* lines 203-205: what the run returns when it halts
HaltResult(res) == Put(res, "error", HaltError)

\* the keys of a result of a run that went through every stage
StageFields == {"original_text", "keea_identified_ambiguity_raw", "aisga_input_ambiguity_focus",
                "aisga_input_fas_context", "aisga_input_ss_context", "aisga_raw_output",
                "suggested_text_by_aisga", "reasoning_by_aisga",
                "shariah_validation_by_scva", "consistency_validation_by_iscca"}

ValidationFields == {"shariah_validation_by_scva", "consistency_validation_by_iscca"}

\* ---------------------------------------------------------------- inputs
FasFiles == {"fas_32_ijarah.pdf"}

SsFiles == {"ss_09_ijarah.pdf"}

Sections == {<<"section A">>, <<"section B">>}

FasNames == {"FAS 32"}

\* stage-1 outputs of the pipeline runs
KeeaTexts == {<<SentinelExact, Word>>, <<SentinelUpper>>, <<SentinelLower, Word>>,
              <<Marker1, WS, Word, WS, Marker2, Word>>, <<Marker1, Word>>, <<Word, Marker2, Word>>,
              <<Marker1, ErrorWord, Word, Marker2, Word>>, <<Marker1, WS, Marker2, Word>>}

\* suggestion texts of the pipeline runs
SuggAlphabet == {HdrRevised, HdrReasoning, ErrorWord, Word}

SuggTexts == SeqUpTo(SuggAlphabet, MaxSuggLen)

AssessmentTexts == {<<"assessment">>}

RuleDefaultTemplate == [rule_id |-> "R1", standard_ref |-> "SS 9 [3/1]", description |-> "d1"]

RuleUnknownField ==
    [rule_id |-> "R2", standard_ref |-> "SS 9 [4/2]", description |-> "d2",
     validation_query_template |-> <<Lit("Check"), Field("clause_text"), Lit("vs"), Field("description"), Lit("and"), Field("unknown_field")>>]

\* contents of knowledge_bases/shariah_rules_explicit.json (empty also stands for a
\* file that is missing or cannot be decoded)
RuleFiles == {<<>>, <<RuleUnknownField, RuleDefaultTemplate>>}

\* the vector store built from a document
Store(filename) == [doc |-> filename]

\* ---------------------------------------------------------------- initialize_components
\* fas_texts, ss_texts: load_and_process_pdf gave chunks; fas_vs, ss_vs:
\* create_vector_store gave a store
InitializeComponents(fas_filename, ss_filename, fas_texts, fas_vs, ss_texts, ss_vs) ==
    LET reload_fas == current_fas_filename_global # fas_filename \/ fas_vector_store_global = None
        fas_store == IF reload_fas /\ fas_texts THEN (IF fas_vs THEN Store(fas_filename) ELSE None)
                     ELSE fas_vector_store_global
        fas_current == IF reload_fas /\ fas_texts /\ fas_vs THEN fas_filename ELSE current_fas_filename_global
        fas_failed == reload_fas /\ ~(fas_texts /\ fas_vs)
        reload_ss == current_ss_filename_global # ss_filename \/ ss_vector_store_global = None
        ss_store == IF reload_ss /\ ss_texts THEN (IF ss_vs THEN Store(ss_filename) ELSE None)
                    ELSE ss_vector_store_global
        ss_current == IF reload_ss /\ ss_texts /\ ss_vs THEN ss_filename ELSE current_ss_filename_global
    IN  /\ pc = "idle"
        /\ init_args' = [fas_filename |-> fas_filename, ss_filename |-> ss_filename]
        /\ doc_processor_global' = [processor |-> "DocumentProcessor"]
        /\ fas_vector_store_global' = fas_store
        /\ current_fas_filename_global' = fas_current
        /\ IF fas_failed
           THEN /\ init_ret' = FALSE
                /\ UNCHANGED <<ss_vector_store_global, current_ss_filename_global, extraction_agent_global,
                               suggestion_agent_global, validation_agent_global>>
           ELSE /\ ss_vector_store_global' = ss_store
                /\ current_ss_filename_global' = ss_current
                /\ IF fas_store # None
                   THEN /\ extraction_agent_global' = ExtractionAgent(fas_store)
                        /\ suggestion_agent_global' = SuggestionAgent
                        /\ validation_agent_global' = IF ss_store # None \/ fas_store # None
                                                      THEN ValidationAgent(rules_file, ss_store, fas_store)
                                                      ELSE None
                        /\ init_ret' = (extraction_agent_global' # None /\ suggestion_agent_global' # None
                                        /\ validation_agent_global' # None)
                   ELSE /\ extraction_agent_global' = None
                        /\ init_ret' = FALSE
                        /\ UNCHANGED <<suggestion_agent_global, validation_agent_global>>
        /\ UNCHANGED <<rules_file, run, pure, mining, batching>>

\* ---------------------------------------------------------------- run_asave_orchestration_flow
ComponentsReadyAgentsOnly ==
    /\ extraction_agent_global # None
    /\ suggestion_agent_global # None
    /\ validation_agent_global # None

\* line 137: all([...]) of the three agents and the FAS store
ComponentsReady ==
    /\ extraction_agent_global # None
    /\ suggestion_agent_global # None
    /\ validation_agent_global # None
    /\ fas_vector_store_global # None

\* lines 137-146: the call; refused when a component is missing
RunStart(section, fas_name) ==
    /\ pc = "idle"
    /\ section_text_to_analyze' = section
    /\ fas_name_for_display' = fas_name
    /\ calls' = <<>>
    /\ exc' = None
    /\ IF ~ComponentsReady
       THEN /\ results' = [error |-> NotInitializedError]
            /\ pc' = "Rejected"
       ELSE /\ results' = [original_text |-> section]
            /\ pc' = "AmbiguityDetection"
    /\ UNCHANGED <<globals, rules_file, pure, mining, batching>>

\* lines 148-161: stage 1 (KEEA) and the focus derived from it
AmbiguityDetection(backend) ==
    /\ pc = "AmbiguityDetection"
    /\ LET keea_ambiguity_output == find_ambiguities(section_text_to_analyze, backend)
           raw == Get(keea_ambiguity_output, "text", <<"KEEA", ErrorWord, "Could not identify ambiguities.">>)
       IN  /\ results' = Put(Put(results, "keea_identified_ambiguity_raw", raw),
                             "aisga_input_ambiguity_focus", DeriveFocus(raw))
           /\ calls' = Append(calls, GenCall("KEEA", [standard_text_chunk |-> section_text_to_analyze], backend))
    /\ pc' = "ContextRetrieval"
    /\ UNCHANGED <<globals, rules_file, section_text_to_analyze, fas_name_for_display, exc, pure, mining, batching>>

NoSSContextForAisga == <<"No specific SS context retrieved or SS not loaded.">>

\* lines 163-175: stage 2; neither similarity_search is inside a try
ContextRetrieval(fas_search, ss_search) ==
    /\ pc = "ContextRetrieval"
    /\ LET fas_call == SearchCall("orchestrator", fas_vector_store_global, fas_search)
           ss_call == SearchCall("orchestrator", ss_vector_store_global, ss_search)
           fas_context == JoinExcerpts(<<"FAS Excerpt", current_fas_filename_global>>, fas_search.docs)
           with_fas == Put(results, "aisga_input_fas_context", fas_context)
       IN  IF fas_search.raises
           THEN /\ pc' = "Raised"
                /\ exc' = fas_call
                /\ calls' = Append(calls, fas_call)
                /\ UNCHANGED results
           ELSE IF ss_vector_store_global = None
           THEN /\ pc' = "SuggestionGeneration"
                /\ results' = Put(with_fas, "aisga_input_ss_context", NoSSContextForAisga)
                /\ calls' = Append(calls, fas_call)
                /\ UNCHANGED exc
           ELSE IF ss_search.raises
           THEN /\ pc' = "Raised"
                /\ exc' = ss_call
                /\ results' = with_fas
                /\ calls' = calls \o <<fas_call, ss_call>>
           ELSE /\ pc' = "SuggestionGeneration"
                /\ results' = Put(with_fas, "aisga_input_ss_context",
                                  JoinExcerpts(<<"Shari'ah Standard Excerpt", current_ss_filename_global>>, ss_search.docs))
                /\ calls' = calls \o <<fas_call, ss_call>>
                /\ UNCHANGED exc
    /\ UNCHANGED <<globals, rules_file, section_text_to_analyze, fas_name_for_display, pure, mining, batching>>

\* lines 177-205: stage 3 (AISGA), the parsing of its output and the halt
SuggestionGeneration(backend) ==
    /\ pc = "SuggestionGeneration"
    /\ LET focus == results["aisga_input_ambiguity_focus"]
           fas_context == results["aisga_input_fas_context"]
           ss_context == results["aisga_input_ss_context"]
           aisga_response == generate_clarification(section_text_to_analyze, focus, fas_context, ss_context, backend)
           aisga_full_text == Get(aisga_response, "text", <<"AISGA", ErrorWord, "No suggestion generated.">>)
           parsed == ParseSuggestion(aisga_full_text)
           filled == Put(Put(Put(results, "aisga_raw_output", aisga_full_text),
                             "suggested_text_by_aisga", parsed.suggested_text),
                         "reasoning_by_aisga", parsed.suggestion_reasoning)
       IN  /\ calls' = Append(calls, GenCall("AISGA", ClarificationArgs(section_text_to_analyze, focus, fas_context, ss_context), backend))
           /\ IF SuggestionFailed(parsed.suggested_text)
              THEN /\ results' = HaltResult(filled)
                   /\ pc' = "Halted"
              ELSE /\ results' = filled
                   /\ pc' = "ComplianceValidation"
    /\ UNCHANGED <<globals, rules_file, section_text_to_analyze, fas_name_for_display, exc, pure, mining, batching>>

\* the rules the validation agent holds
LoadedRules == IF validation_agent_global = None THEN <<>> ELSE validation_agent_global.explicit_rules

\* lines 207-214: stage 4 (SCVA)
ComplianceValidation(rule_backends, search, backend) ==
    /\ pc = "ComplianceValidation"
    /\ LET scva_response == validate_shariah_compliance(validation_agent_global, results["suggested_text_by_aisga"],
                                                        results["aisga_input_ambiguity_focus"], rule_backends, search, backend)
       IN  /\ results' = Put(results, "shariah_validation_by_scva",
                             Get(scva_response.ret, "text", <<"SCVA", ErrorWord, "No Shari'ah assessment generated.">>))
           /\ calls' = calls \o scva_response.calls
    /\ pc' = "ConsistencyValidation"
    /\ UNCHANGED <<globals, rules_file, section_text_to_analyze, fas_name_for_display, exc, pure, mining, batching>>

\* lines 216-226: stage 5 (ISCCA) and the return of the complete result
ConsistencyValidation(search, backend) ==
    /\ pc = "ConsistencyValidation"
    /\ LET iscca_response == validate_inter_standard_consistency(validation_agent_global, results["suggested_text_by_aisga"],
                                                                 fas_name_for_display, search, backend)
       IN  /\ results' = Put(results, "consistency_validation_by_iscca",
                             Get(iscca_response.ret, "text", <<"ISCCA", ErrorWord, "No consistency assessment generated.">>))
           /\ calls' = calls \o iscca_response.calls
    /\ pc' = "Done"
    /\ UNCHANGED <<globals, rules_file, section_text_to_analyze, fas_name_for_display, exc, pure, mining, batching>>

\* the call is over: its frame is gone and the next call can start
Return ==
    /\ pc \in {"Done", "Halted", "Rejected", "Raised"}
    /\ pc' = "idle"
    /\ results' = <<>>
    /\ calls' = <<>>
    /\ exc' = None
    /\ UNCHANGED <<globals, rules_file, section_text_to_analyze, fas_name_for_display, pure, mining, batching>>

\* ---------------------------------------------------------------- the program
\* the orchestrator as the module leaves it when imported, with no call running
OrchestratorIdle ==
    /\ doc_processor_global = None
    /\ fas_vector_store_global = None
    /\ ss_vector_store_global = None
    /\ extraction_agent_global = None
    /\ suggestion_agent_global = None
    /\ validation_agent_global = None
    /\ current_fas_filename_global = NoName
    /\ current_ss_filename_global = NoName
    /\ init_ret = None
    /\ init_args = None
    /\ rules_file = <<>>
    /\ pc = "idle"
    /\ section_text_to_analyze = <<>>
    /\ fas_name_for_display = "FAS 32"
    /\ results = <<>>
    /\ calls = <<>>
    /\ exc = None

\* no mine_rules_from_document call running, no batch running, the miner not built
MinerIdle ==
    /\ miner_pc = "idle"
    /\ document_chunks = <<>>
    /\ standard_name = <<>>
    /\ chunk_i = 1
    /\ potential_rules_texts = <<>>
    /\ rule_j = 1
    /\ all_formatted_rules = <<>>
    /\ miner_calls = <<>>
    /\ miner_exc = None
    /\ shariah_rule_miner_agent_global = None
    /\ output_files = <<>>
    /\ batch_pc = "idle"
    /\ ss_document_filenames = <<>>
    /\ file_k = 1
    /\ all_mined_rules_combined = <<>>
    /\ batch_ret = None
    /\ batch_exc = None
    /\ unit_calls = <<>>

Init ==
    /\ doc_processor_global = None
    /\ fas_vector_store_global = None
    /\ ss_vector_store_global = None
    /\ extraction_agent_global = None
    /\ suggestion_agent_global = None
    /\ validation_agent_global = None
    /\ current_fas_filename_global = NoName
    /\ current_ss_filename_global = NoName
    /\ init_ret = None
    /\ init_args = None
    /\ rules_file \in RuleFiles
    /\ pc = "idle"
    /\ section_text_to_analyze = <<>>
    /\ fas_name_for_display = "FAS 32"
    /\ results = <<>>
    /\ calls = <<>>
    /\ exc = None
    /\ gen_in = None
    /\ gen_out = None
    /\ val_in = None
    /\ val_out = None
    /\ MinerIdle
    /\ ss_corpus = <<>>

Next ==
    \/ \E f \in FasFiles, s \in SsFiles, ft \in BOOLEAN, fv \in BOOLEAN, st \in BOOLEAN, sv \in BOOLEAN :
          InitializeComponents(f, s, ft, fv, st, sv)
    \/ \E section \in Sections, fas_name \in FasNames : RunStart(section, fas_name)
    \/ \E b \in Backends(KeeaTexts) : AmbiguityDetection(b)
    \/ \E fs \in SearchOutcomes, ss \in SearchOutcomes : ContextRetrieval(fs, ss)
    \/ \E b \in Backends(SuggTexts) : SuggestionGeneration(b)
    \/ \E rb \in [1..Len(LoadedRules) -> Backends(AssessmentTexts)],
          s \in SearchOutcomes, b \in Backends(AssessmentTexts) : ComplianceValidation(rb, s, b)
    \/ \E s \in SearchOutcomes, b \in Backends(AssessmentTexts) : ConsistencyValidation(s, b)
    \/ Return

Spec == Init /\ [][Next]_vars

\* ---------------------------------------------------------------- the standards selected anew between runs
InitCorpus ==
    /\ OrchestratorIdle
    /\ gen_in = None
    /\ gen_out = None
    /\ val_in = None
    /\ val_out = None
    /\ MinerIdle
    /\ ss_corpus = <<>>

\* two FAS and two SS documents to select from; one behaviour of each model call
NextCorpus ==
    \/ \E f \in {"fas_32_ijarah.pdf", "fas_28_murabahah.pdf"}, s \in {"ss_09_ijarah.pdf", "ss_08_murabahah.pdf"},
          ft \in BOOLEAN, fv \in BOOLEAN, st \in BOOLEAN, sv \in BOOLEAN : InitializeComponents(f, s, ft, fv, st, sv)
    \/ RunStart(<<"section A">>, "FAS 32")
    \/ AmbiguityDetection([throws |-> FALSE, text |-> <<Marker1, Word>>])
    \/ \E raises \in BOOLEAN : ContextRetrieval([raises |-> raises, docs |-> <<"chunk">>], [raises |-> FALSE, docs |-> <<"chunk">>])
    \/ \E b \in Backends({<<HdrRevised, Word>>}) : SuggestionGeneration(b)
    \/ ComplianceValidation(<<>>, [raises |-> FALSE, docs |-> <<"chunk">>], [throws |-> FALSE, text |-> <<"assessment">>])
    \/ ConsistencyValidation([raises |-> FALSE, docs |-> <<"chunk">>], [throws |-> FALSE, text |-> <<"assessment">>])
    \/ Return

SpecCorpus == InitCorpus /\ [][NextCorpus]_vars

\* ---------------------------------------------------------------- generate() on its own
PlaceholderNames == <<"query", "clause_text", "description", "ref", "specific_aspect", "rule_description">>

Names == {PlaceholderNames[i] : i \in 1..NumNames}

\* every template (by the placeholders it references), binding set and backend behaviour
GenerateInputs ==
    {[template_vars |-> t, kwargs |-> k, backend |-> b] :
        t \in SUBSET Names, k \in UNION {[bound -> {<<"value">>}] : bound \in SUBSET Names},
        b \in Backends({<<"answer">>})}

InitGenerate ==
    /\ doc_processor_global = None
    /\ fas_vector_store_global = None
    /\ ss_vector_store_global = None
    /\ extraction_agent_global = None
    /\ suggestion_agent_global = None
    /\ validation_agent_global = None
    /\ current_fas_filename_global = NoName
    /\ current_ss_filename_global = NoName
    /\ init_ret = None
    /\ init_args = None
    /\ rules_file = <<>>
    /\ pc = "idle"
    /\ section_text_to_analyze = <<>>
    /\ fas_name_for_display = "FAS 32"
    /\ results = <<>>
    /\ calls = <<>>
    /\ exc = None
    /\ gen_in \in GenerateInputs
    /\ gen_out = None
    /\ val_in = None
    /\ val_out = None
    /\ MinerIdle
    /\ ss_corpus = <<>>

GenerateCall ==
    /\ gen_out = None
    /\ gen_out' = Generate(gen_in.template_vars, gen_in.kwargs, gen_in.backend)
    /\ UNCHANGED <<globals, rules_file, run, gen_in, val_in, val_out, unit_calls, mining, batching>>

NextGenerate == GenerateCall

SpecGenerate == InitGenerate /\ [][NextGenerate]_vars

\* ---------------------------------------------------------------- validate_shariah_compliance() on its own
RuleMinerInstructed ==
    [rule_id |-> "R3", standard_ref |-> "SS 9 [5/1]", description |-> "d3", validation_query_template |-> MinerInstructedTemplate]

RuleMinerDefault ==
    [rule_id |-> "R4", standard_ref |-> "SS 9 [Clause TODO]", description |-> "d4", validation_query_template |-> MinerDefaultTemplate]

RuleSamples == {RuleDefaultTemplate, RuleUnknownField, RuleMinerInstructed, RuleMinerDefault}

\* the calls on an agent that holds the given rules: every behaviour of each call made
ValidateInputs(rules) ==
    {[agent |-> ValidationAgent(rules, ss_vs, None), proposed_text |-> <<"clause">>, specific_aspect |-> <<"aspect">>,
      rule_backends |-> rb, search |-> s, backend |-> b] :
        ss_vs \in {None, Store("ss_09_ijarah.pdf")}, rb \in [1..Len(rules) -> Backends(AssessmentTexts)],
        s \in SearchOutcomes, b \in Backends(AssessmentTexts)}

InitValidate ==
    /\ OrchestratorIdle
    /\ gen_in = None
    /\ gen_out = None
    /\ \E rules \in SeqUpTo(RuleSamples, MaxRules) : val_in \in ValidateInputs(rules)
    /\ val_out = None
    /\ MinerIdle
    /\ ss_corpus = <<>>

ValidateCall ==
    /\ val_out = None
    /\ val_out' = validate_shariah_compliance(val_in.agent, val_in.proposed_text, val_in.specific_aspect,
                                              val_in.rule_backends, val_in.search, val_in.backend)
    /\ UNCHANGED <<globals, rules_file, run, gen_in, gen_out, val_in, unit_calls, mining, batching>>

NextValidate == ValidateCall

SpecValidate == InitValidate /\ [][NextValidate]_vars

\* ---------------------------------------------------------------- mine_rules_from_document
\* answers to the extraction prompt
ExtractTexts ==
    {<<Dash, WS, "It", WS, "is", WS, "not", WS, "permitted", WS, "sell", WS, "goods">>,
     <<Dash, WS, "It", WS, "is", WS, "not", WS, "permitted", WS, "sell", WS, "goods", NL,
       Dash, WS, "It", WS, "is", WS, "not", WS, "permitted", WS, "lease", WS, "goods">>,
     <<MinerSentinelExact, WS, "in", WS, "this", WS, "chunk">>,
     <<MinerSentinelLower, NL, Dash, WS, "junk">>,
     <<Dash, WS, "short">>}

\* answers to the formatting prompt
JsonTexts ==
    {<<"{five fields}">>,
     <<FenceJson, NL, "{five fields}", NL, Fence>>,
     <<Fence, NL, "{}", NL, Fence>>,
     <<"[]">>,
     <<"{empty values}">>}

\* the names the standard is given in the prompts
StandardNames ==
    {<<"AAOIFI", WS, "Shari'ah", WS, "Standard", WS, "(", "ss_09_ijarah", ")">>}

\* line 170-171: the call
MineRulesFromDocument(chunks, name) ==
    /\ miner_pc = "idle"
    /\ document_chunks' = chunks
    /\ standard_name' = name
    /\ chunk_i' = 1
    /\ potential_rules_texts' = <<>>
    /\ rule_j' = 1
    /\ all_formatted_rules' = <<>>
    /\ miner_calls' = <<>>
    /\ miner_exc' = None
    /\ miner_pc' = "chunk"
    /\ UNCHANGED <<globals, rules_file, run, pure, batching>>

\* lines 173-176: the candidates of the next chunk
ExtractChunk(backend) ==
    /\ miner_pc = "chunk"
    /\ chunk_i <= Len(document_chunks)
    /\ LET chunk == document_chunks[chunk_i]
           texts == extract_potential_rules_from_chunk(chunk, standard_name, backend)
       IN  /\ potential_rules_texts' = texts
           /\ miner_calls' = Append(miner_calls, GenCall("SRMA extract", ExtractionArgs(chunk, standard_name), backend))
           /\ IF Truthy(texts)
              THEN miner_pc' = "rule" /\ UNCHANGED chunk_i
              ELSE miner_pc' = "chunk" /\ chunk_i' = chunk_i + 1
    /\ rule_j' = 1
    /\ UNCHANGED <<globals, rules_file, run, pure, batching, document_chunks, standard_name, all_formatted_rules, miner_exc>>

\* lines 178-182: the next candidate is formatted; a rule is kept, None is dropped
FormatRule(backend) ==
    /\ miner_pc = "rule"
    /\ LET chunk == document_chunks[chunk_i]
           rule_text == potential_rules_texts[rule_j]
           formatted_rule == format_rule_to_json_structure(rule_text, standard_name, chunk, backend)
       IN  /\ miner_calls' = Append(miner_calls, GenCall("SRMA format", FormatArgs(rule_text, standard_name, chunk), backend))
           /\ IF IsRaise(formatted_rule)
              THEN /\ miner_exc' = formatted_rule
                   /\ miner_pc' = "Raised"
                   /\ UNCHANGED <<all_formatted_rules, rule_j, chunk_i>>
              ELSE /\ all_formatted_rules' = IF formatted_rule # None /\ DOMAIN formatted_rule # {}
                                              THEN Append(all_formatted_rules, formatted_rule) ELSE all_formatted_rules
                   /\ UNCHANGED miner_exc
                   /\ IF rule_j < Len(potential_rules_texts)
                      THEN rule_j' = rule_j + 1 /\ UNCHANGED <<miner_pc, chunk_i>>
                      ELSE rule_j' = 1 /\ miner_pc' = "chunk" /\ chunk_i' = chunk_i + 1
    /\ UNCHANGED <<globals, rules_file, run, pure, batching, document_chunks, standard_name, potential_rules_texts>>

\* line 183
MineReturn ==
    /\ miner_pc = "chunk"
    /\ chunk_i > Len(document_chunks)
    /\ miner_pc' = "Returned"
    /\ UNCHANGED <<globals, rules_file, run, pure, batching, document_chunks, standard_name, chunk_i, potential_rules_texts, rule_j,
                   all_formatted_rules, miner_calls, miner_exc>>

\* the call is over: its frame is gone and the next call can start
MineOver ==
    /\ miner_pc \in {"Returned", "Raised"}
    /\ miner_pc' = "idle"
    /\ document_chunks' = <<>>
    /\ standard_name' = <<>>
    /\ chunk_i' = 1
    /\ potential_rules_texts' = <<>>
    /\ rule_j' = 1
    /\ all_formatted_rules' = <<>>
    /\ miner_calls' = <<>>
    /\ miner_exc' = None
    /\ UNCHANGED <<globals, rules_file, run, pure, batching>>

InitMine ==
    /\ OrchestratorIdle
    /\ gen_in = None
    /\ gen_out = None
    /\ val_in = None
    /\ val_out = None
    /\ MinerIdle
    /\ ss_corpus = <<>>

NextMine ==
    \/ \E n \in 0..MaxChunks, name \in StandardNames : MineRulesFromDocument([k \in 1..n |-> <<"chunk", ToString(k)>>], name)
    \/ \E b \in Backends(ExtractTexts) : ExtractChunk(b)
    \/ \E b \in Backends(JsonTexts) : FormatRule(b)
    \/ MineReturn
    \/ MineOver

SpecMine == InitMine /\ [][NextMine]_vars

\* ---------------------------------------------------------------- the miner's two private methods on their own
\* answers to the extraction prompt: lines of 15 and of 16 characters, with and
\* without the list marker, blank lines
UnitExtractTexts ==
    {<<"Riba", WS, "is", WS, "unlawful", NL, "Riba", WS, "is", WS, "illegal">>,
     <<WS, Dash, WS, WS, "Riba", WS, "is", WS, "unlawful", WS, NL, Dash, WS, "Riba", WS, "is", WS, "illegal">>,
     <<Dash, WS, Dash, WS, "Riba", WS, "is", WS, "illegal", NL, WS, NL, NL, "It", WS, "is", WS, "not", WS, "permitted", WS, "sell", WS, "goods">>,
     <<Dash, NL, Dash, WS, NL, "short">>,
     <<>>}

\* candidate sentences: six words, three words with punctuation, glued
\* fragments, no letter or digit at all
UnitRuleTexts ==
    {<<"It", WS, "is", WS, "not", WS, "permitted", WS, "sell", WS, "goods">>,
     <<"Riba", ",", WS, "is", WS, WS, "unlawful", ".">>,
     <<"don", "'", "t", WS, "sell", WS, Dash, WS, "goods">>,
     <<"(", ".", ")", WS, Dash, Dash, WS, ":">>}

\* one call of _extract_potential_rules_from_chunk
ExtractUnit(text_chunk, name, backend) ==
    /\ Len(unit_calls) < MaxCalls
    /\ unit_calls' = Append(unit_calls, [fn |-> "extract", args |-> ExtractionArgs(text_chunk, name), backend |-> backend,
                                         ret |-> extract_potential_rules_from_chunk(text_chunk, name, backend)])
    /\ UNCHANGED <<globals, rules_file, run, gen_in, gen_out, val_in, val_out, mining, batching>>

\* one call of _format_rule_to_json_structure
FormatUnit(rule_text, name, original_chunk_ref, backend) ==
    /\ Len(unit_calls) < MaxCalls
    /\ unit_calls' = Append(unit_calls, [fn |-> "format", args |-> FormatArgs(rule_text, name, original_chunk_ref), backend |-> backend,
                                         ret |-> format_rule_to_json_structure(rule_text, name, original_chunk_ref, backend)])
    /\ UNCHANGED <<globals, rules_file, run, gen_in, gen_out, val_in, val_out, mining, batching>>

InitUnits ==
    /\ OrchestratorIdle
    /\ gen_in = None
    /\ gen_out = None
    /\ val_in = None
    /\ val_out = None
    /\ MinerIdle
    /\ ss_corpus = <<>>

NextUnits ==
    \/ \E b \in Backends(UnitExtractTexts) : ExtractUnit(<<"chunk">>, <<"AAOIFI", WS, "Shari'ah", WS, "Standard", WS, "(", "ss_09_ijarah", ")">>, b)
    \/ \E rule_text \in UnitRuleTexts,
          name \in {<<"AAOIFI", WS, "Shari'ah", WS, "Standard", WS, "(", "ss_09_ijarah", ")">>,
                    <<"Shari'ah", WS, "standard", WS, "No.", WS, "(", "9", ")", WS, "Ijarah">>, <<"Ijarah", WS, "Standard">>},
          b \in Backends({<<"{five fields}">>, <<"{null keywords, no id}">>, <<"{string keywords}">>}) :
          FormatUnit(rule_text, name, <<"chunk">>, b)

SpecUnits == InitUnits /\ [][NextUnits]_vars

\* ---------------------------------------------------------------- run_srma_on_selected_ss_files, mine_rules_from_document_list
\* the names bound in the module shariah_rule_miner_agent (its imports and its class)
MinerModuleGlobals == {"BaseAgent", "json", "re", "os", "PDF_DATA_DIR", "ShariahRuleMinerAgent"}

\* file names, as os.path.splitext splits them
SsBatchFiles == {<<"ss_09_ijarah", ".pdf">>, <<"ss_08_murabahah", ".pdf">>}

\* what a document of data_pdf holds: whether load_and_process_pdf gives chunks
\* of it, and the rules mine_rules_from_document gives for these chunks
Corpora ==
    [SsBatchFiles -> {[loads |-> FALSE, rules |-> <<>>], [loads |-> TRUE, rules |-> <<>>],
                      [loads |-> TRUE, rules |-> <<"rule 1">>], [loads |-> TRUE, rules |-> <<"rule 1", "rule 2">>]}]

\* line 143 and line 155: the paths of the output files
IndividualOutputPath(ss_filename) == "generated_" \o ss_filename[1] \o "_rules.json"

CombinedOutputPath == "generated_ALL_shariah_rules_combined.json"

\* main_orchestrator lines 228-264, miner lines 123-124: the call; refused when
\* the miner cannot be built or the document processor is missing
RunSrmaOnSelectedSsFiles(selected_ss_filenames, agent_built) ==
    /\ batch_pc = "idle"
    /\ shariah_rule_miner_agent_global' =
          IF shariah_rule_miner_agent_global = None /\ agent_built THEN [agent |-> "ShariahRuleMinerAgent"]
          ELSE shariah_rule_miner_agent_global
    /\ IF shariah_rule_miner_agent_global' = None \/ doc_processor_global = None
       THEN /\ batch_ret' = FALSE
            /\ batch_pc' = "Refused"
            /\ UNCHANGED ss_document_filenames
       ELSE /\ ss_document_filenames' = selected_ss_filenames
            /\ batch_ret' = None
            /\ batch_pc' = "loop"
    /\ file_k' = 1
    /\ all_mined_rules_combined' = <<>>
    /\ batch_exc' = None
    /\ UNCHANGED <<globals, rules_file, run, pure, mining, ss_corpus, output_files>>

\* lines 126-152: one file of the list. Line 130 reads the name
\* doc_processor_global, which the miner's module never binds; were it bound,
\* the file would be loaded, mined and its rules saved (saved: the write succeeds)
BatchDocument(saved) ==
    /\ batch_pc = "loop"
    /\ file_k <= Len(ss_document_filenames)
    /\ LET ss_filename == ss_document_filenames[file_k]
           ss_texts_to_mine == ss_corpus[ss_filename].loads
           extracted_rules_for_doc == ss_corpus[ss_filename].rules
       IN  IF "doc_processor_global" \notin MinerModuleGlobals
           THEN /\ batch_exc' = Raise("NameError")
                /\ batch_pc' = "Raised"
                /\ UNCHANGED <<file_k, all_mined_rules_combined, output_files>>
           ELSE /\ file_k' = file_k + 1
                /\ UNCHANGED <<batch_pc, batch_exc>>
                /\ IF ss_texts_to_mine /\ Truthy(extracted_rules_for_doc) /\ saved
                   THEN /\ output_files' = Put(output_files, IndividualOutputPath(ss_filename), extracted_rules_for_doc)
                        /\ all_mined_rules_combined' = all_mined_rules_combined \o extracted_rules_for_doc
                   ELSE UNCHANGED <<all_mined_rules_combined, output_files>>
    /\ UNCHANGED <<globals, rules_file, run, pure, mining, shariah_rule_miner_agent_global, ss_corpus,
                   ss_document_filenames, batch_ret>>

\* lines 154-167: the combined file and the value returned
BatchFinish(saved) ==
    /\ batch_pc = "loop"
    /\ file_k > Len(ss_document_filenames)
    /\ IF Truthy(all_mined_rules_combined) /\ saved
       THEN /\ output_files' = Put(output_files, CombinedOutputPath, all_mined_rules_combined)
            /\ batch_ret' = TRUE
       ELSE /\ batch_ret' = FALSE
            /\ UNCHANGED output_files
    /\ batch_pc' = "Returned"
    /\ UNCHANGED <<globals, rules_file, run, pure, mining, shariah_rule_miner_agent_global, ss_corpus,
                   ss_document_filenames, file_k, all_mined_rules_combined, batch_exc>>

\* the call is over: its frame is gone and the next call can start
BatchOver ==
    /\ batch_pc \in {"Refused", "Returned", "Raised"}
    /\ batch_pc' = "idle"
    /\ ss_document_filenames' = <<>>
    /\ file_k' = 1
    /\ all_mined_rules_combined' = <<>>
    /\ batch_ret' = None
    /\ batch_exc' = None
    /\ UNCHANGED <<globals, rules_file, run, pure, mining, shariah_rule_miner_agent_global, ss_corpus, output_files>>

InitBatch ==
    /\ OrchestratorIdle
    /\ gen_in = None
    /\ gen_out = None
    /\ val_in = None
    /\ val_out = None
    /\ MinerIdle
    /\ ss_corpus \in Corpora

NextBatch ==
    \/ \E f \in FasFiles, s \in SsFiles, ft \in BOOLEAN, fv \in BOOLEAN, st \in BOOLEAN, sv \in BOOLEAN :
          batch_pc = "idle" /\ InitializeComponents(f, s, ft, fv, st, sv)
    \/ \E selected \in SeqUpTo(SsBatchFiles, MaxBatch), agent_built \in BOOLEAN : RunSrmaOnSelectedSsFiles(selected, agent_built)
    \/ \E saved \in BOOLEAN : BatchDocument(saved)
    \/ \E saved \in BOOLEAN : BatchFinish(saved)
    \/ BatchOver

SpecBatch == InitBatch /\ [][NextBatch]_vars

\* ---------------------------------------------------------------- properties
\* what a logged generate call returned to its caller
Returned(call) == IF call.failed THEN <<ErrorWord>> \o call.backend.text ELSE call.backend.text

\* the run has gone through stage 3 and `raw` is the suggestion text
HasSuggestion == "aisga_raw_output" \in DOMAIN results

NoValidationCall == \A i \in 1..Len(calls) : calls[i].agent \notin {"SCVA rule", "SCVA", "ISCCA"}

\* C1: a run whose suggestion text contains the header "Revised Paragraph:" never
\* halts, whatever the revised text says
C1_HeaderPresentNeverHalts ==
    (HasSuggestion /\ Contains(results["aisga_raw_output"], HdrRevised))
        => (pc # "Halted" /\ "error" \notin DOMAIN results)

\* C2: a suggestion text with neither header (also the diagnostic text of a failed
\* generation call) halts the run: top-level error, no validation field, no
\* validation call
C2_NoHeaderHalts ==
    (HasSuggestion /\ ~Contains(results["aisga_raw_output"], HdrRevised)
                   /\ ~Contains(results["aisga_raw_output"], HdrReasoning))
        => /\ pc = "Halted"
           /\ "error" \in DOMAIN results
           /\ DOMAIN results \cap ValidationFields = {}
           /\ NoValidationCall

C2_Witness ==
    /\ pc = "Halted"
    /\ calls[Len(calls)].agent = "AISGA"
    /\ calls[Len(calls)].failed
    /\ ~Contains(results["aisga_raw_output"], HdrRevised)
    /\ ~Contains(results["aisga_raw_output"], HdrReasoning)

\* C3: a returned result is complete and free of a top-level error, or it has a
\* top-level error; a result that lacks a per-stage field has the error
C3_CompleteOrError ==
    pc \in {"Done", "Halted", "Rejected"}
        => /\ \/ ("error" \notin DOMAIN results /\ StageFields \subseteq DOMAIN results)
              \/ ("error" \in DOMAIN results /\ results["error"] # <<>>)
           /\ ~(StageFields \subseteq DOMAIN results) => "error" \in DOMAIN results

C3_Witness ==
    /\ pc = "Halted"
    /\ "error" \in DOMAIN results
    /\ ~(StageFields \subseteq DOMAIN results)
    /\ "suggested_text_by_aisga" \in DOMAIN results

\* C4 as stated: wherever the run stops early with a top-level error, the result
\* holds the original section text and no validation field
C4_EveryHaltKeepsOriginalText ==
    pc \in {"Halted", "Rejected"}
        => /\ "original_text" \in DOMAIN results
           /\ DOMAIN results \cap ValidationFields = {}

\* C4, amended: a halt at the suggestion stage returns this run's original text,
\* the outputs of stages 1 to 3 and the error, and no validation field; a run
\* refused for want of a component returns the error alone
C4_HaltKeepsCompletedStages ==
    /\ pc = "Halted"
         => /\ DOMAIN results = (StageFields \ ValidationFields) \cup {"error"}
            /\ results["original_text"] = section_text_to_analyze
            /\ calls[1].agent = "KEEA"
            /\ results["keea_identified_ambiguity_raw"] = Returned(calls[1])
            /\ calls[Len(calls)].agent = "AISGA"
            /\ results["aisga_raw_output"] = Returned(calls[Len(calls)])
            /\ results["aisga_input_ambiguity_focus"] = calls[Len(calls)].bindings.identified_ambiguity
            /\ results["aisga_input_fas_context"] = calls[Len(calls)].bindings.fas_context
            /\ results["aisga_input_ss_context"] = calls[Len(calls)].bindings.ss_context
    /\ pc = "Rejected" => DOMAIN results = {"error"}

C4_Witness ==
    /\ pc = "Halted"
    /\ section_text_to_analyze = <<"section B">>
    /\ Contains(results["aisga_raw_output"], HdrRevised)

\* the ambiguity sentinel occurs in the text, in whatever casing
SentinelAnyCase(text) == \E i \in 1..Len(text) : text[i] \in {SentinelExact, SentinelUpper, SentinelLower}

HasFocus == "aisga_input_ambiguity_focus" \in DOMAIN results

\* C5: every casing of the sentinel in the stage-1 output gives the generic focus
C5_SentinelAnyCaseGivesGenericFocus ==
    (HasFocus /\ SentinelAnyCase(results["keea_identified_ambiguity_raw"]))
        => results["aisga_input_ambiguity_focus"] = GenericFocus

\* the first numbered finding: what lies between "1." and "2." (to the end when
\* there is no "2."), or the whole text when that is empty
FirstFinding(text) ==
    LET after1 == IF Contains(text, Marker1) THEN SubSeq(text, FirstIndex(text, Marker1) + 1, Len(text)) ELSE text
        upto2 == IF Contains(after1, Marker2) THEN SubSeq(after1, 1, FirstIndex(after1, Marker2) - 1) ELSE after1
    IN  IF Strip(upto2) # <<>> THEN Strip(upto2) ELSE text

\* C6: the focus is the generic string exactly when the sentinel fired or stage 1
\* returned an error-flagged result; otherwise it is the first numbered finding,
\* also when that finding contains the word "Error"
C6_FocusIsFirstFindingUnlessSentinelOrErrorFlag ==
    HasFocus =>
        LET raw == results["keea_identified_ambiguity_raw"]
            focus == results["aisga_input_ambiguity_focus"]
        IN  IF Contains(raw, SentinelExact) \/ calls[1].failed
            THEN focus = GenericFocus
            ELSE focus = FirstFinding(raw) /\ focus # GenericFocus

\* C7: with both headers the revised text lies between them and the reasoning
\* after the second; with only "Revised Paragraph:" the revised text is what
\* follows it and the reasoning is the empty string
C7_SuggestionParsing ==
    HasSuggestion =>
        LET raw == results["aisga_raw_output"]
            afterRevised == SubSeq(raw, FirstIndex(raw, HdrRevised) + 1, Len(raw))
        IN  /\ (Contains(raw, HdrRevised) /\ Contains(afterRevised, HdrReasoning))
                 => /\ results["suggested_text_by_aisga"] = Strip(SubSeq(afterRevised, 1, FirstIndex(afterRevised, HdrReasoning) - 1))
                    /\ results["reasoning_by_aisga"] = Strip(SubSeq(afterRevised, FirstIndex(afterRevised, HdrReasoning) + 1, Len(afterRevised)))
            /\ (Contains(raw, HdrRevised) /\ ~Contains(raw, HdrReasoning))
                 => /\ results["suggested_text_by_aisga"] = Strip(afterRevised)
                    /\ results["reasoning_by_aisga"] = <<>>

\* the context bindings of the logged generate calls
ContextBindings ==
    {calls[i].bindings.fas_context : i \in {j \in 1..Len(calls) : calls[j].agent = "AISGA"}}
    \cup {calls[i].bindings.ss_context : i \in {j \in 1..Len(calls) : calls[j].agent = "AISGA"}}
    \cup {calls[i].bindings.shariah_standard_context : i \in {j \in 1..Len(calls) : calls[j].agent = "SCVA"}}
    \cup {calls[i].bindings.other_fas_context : i \in {j \in 1..Len(calls) : calls[j].agent = "ISCCA"}}

\* C8: no retrieval failure leaves the run as an exception, and every context
\* handed to a model is a non-empty text (the excerpts, or a placeholder that
\* explains their absence)
C8_RetrievalFailureDegrades ==
    /\ pc # "Raised"
    /\ \A c \in ContextBindings : c # <<>>

\* the logged generate calls of the advisory stages that failed
FailedAdvisoryCalls == {i \in 1..Len(calls) : calls[i].op = "generate" /\ calls[i].failed /\ calls[i].agent \in {"KEEA", "SCVA", "ISCCA"}}

FieldOf(agent) ==
    CASE agent = "KEEA" -> "keea_identified_ambiguity_raw"
      [] agent = "SCVA" -> "shariah_validation_by_scva"
      [] agent = "ISCCA" -> "consistency_validation_by_iscca"

\* C9: a failed generation call of stage 1, 4 or 5 stops nothing: the run halts
\* only in stage 3 on the suggestion, only a retrieval call can leave it as an
\* exception, a run past stage 3 carries no error and is complete when done, and
\* the field of a failed stage holds the diagnostic text "Error: <message>"
C9_FailedGenerationDegrades ==
    /\ pc = "Halted" => (calls[Len(calls)].agent = "AISGA" /\ Contains(results["suggested_text_by_aisga"], ErrorWord))
    /\ pc = "Raised" => exc.op = "search"
    /\ pc \in {"ComplianceValidation", "ConsistencyValidation", "Done"} => "error" \notin DOMAIN results
    /\ pc = "Done" => DOMAIN results = StageFields
    /\ \A i \in FailedAdvisoryCalls :
          /\ FieldOf(calls[i].agent) \in DOMAIN results
          /\ results[FieldOf(calls[i].agent)] = <<ErrorWord>> \o calls[i].backend.text

C9_Witness ==
    /\ pc = "Done"
    /\ {calls[i].agent : i \in FailedAdvisoryCalls} = {"KEEA", "SCVA", "ISCCA"}
    /\ "error" \notin DOMAIN results

\* C10: generate() gives a result with a text field and raises nothing, for every
\* template and binding set; when the backend throws, the result is
\* error-flagged and its text is the diagnostic
C10_GenerateNeverRaises ==
    gen_out # None
        => /\ ~IsRaise(gen_out)
           /\ "text" \in DOMAIN gen_out
           /\ gen_in.backend.throws
                => /\ "error" \in DOMAIN gen_out
                   /\ gen_out["error"] = TRUE
                   /\ Contains(gen_out["text"], ErrorWord)

C10_Witness ==
    /\ gen_out # None
    /\ gen_in.backend.throws
    /\ gen_in.template_vars \subseteq DOMAIN gen_in.kwargs
    /\ gen_in.template_vars # {}
    /\ gen_out["text"] = <<ErrorWord>> \o gen_in.backend.text

\* ---------------------------------------------------------------- rule templates
RuleTemplate(rule) == Get(rule, "validation_query_template", DefaultRuleTemplate)

\* the names of the replacement fields {name} of a template
FieldNames(template) == {template[i].v : i \in {j \in 1..Len(template) : template[j].kind = "field"}}

SupportedPlaceholders == {"clause_text", "specific_aspect", "description", "ref"}

\* the rules of the given set whose template has a replacement field outside the supported set
Unfillable(rules) == {i \in 1..Len(rules) : ~(FieldNames(RuleTemplate(rules[i])) \subseteq SupportedPlaceholders)}

Fillable(rules) == (1..Len(rules)) \ Unfillable(rules)

\* the per-rule generation calls of the validation call, in the order made
RuleCalls == SelectSeq(val_out.calls, LAMBDA c : c.op = "generate" /\ c.agent = "SCVA rule")

\* the literal words of a template
Literals(template) == {template[i].v : i \in {j \in 1..Len(template) : template[j].kind = "lit"}}

\* the report handed to the overall call, and where its per-rule entries start
RuleReport == val_out.calls[Len(val_out.calls)].bindings.explicit_rules_assessment_str

EntryStarts == {j \in 1..Len(RuleReport) : RuleReport[j] = "Check against Rule"}

IsFormattingError(j) ==
    /\ j + 5 <= Len(RuleReport)
    /\ RuleReport[j + 4] = ErrorWord
    /\ RuleReport[j + 5] = "formatting query - missing key"

\* C11: in validate_shariah_compliance every loaded rule gets one report entry,
\* in rule order; a rule whose template has a replacement field outside
\* {clause_text, specific_aspect, description, ref} gets a formatting-error entry
\* and no generation call; every other rule, before and after it, gets exactly
\* one generation call, in rule order; and the overall-assessment call is made
\* once, after all of them.
C11_BadTemplateSkipsOnlyItsRule ==
    val_out # None =>
        LET rules == val_in.agent.explicit_rules
            n == Len(val_out.calls)
        IN  /\ Cardinality(EntryStarts) = Len(rules)
            /\ \A k \in 1..Len(rules) :
                  /\ RuleReport[Nth(EntryStarts, k) + 1] = rules[k].rule_id
                  /\ IsFormattingError(Nth(EntryStarts, k)) <=> k \in Unfillable(rules)
            /\ Len(RuleCalls) = Cardinality(Fillable(rules))
            /\ \A k \in 1..Len(RuleCalls) :
                  LET i == Nth(Fillable(rules), k)
                  IN  /\ val_out.calls[k] = RuleCalls[k]
                      /\ RuleCalls[k].backend = val_in.rule_backends[i]
                      /\ \A w \in Literals(RuleTemplate(rules[i])) : Contains(RuleCalls[k].bindings.query, w)
            /\ val_out.calls[n].op = "generate" /\ val_out.calls[n].agent = "SCVA"
            /\ Cardinality({j \in 1..n : val_out.calls[j].op = "generate" /\ val_out.calls[j].agent = "SCVA"}) = 1

\* a rule with an unknown replacement field between two rules that can be filled
C11_Witness ==
    /\ val_out # None
    /\ val_in.agent.explicit_rules = <<RuleDefaultTemplate, RuleUnknownField, RuleDefaultTemplate>>
    /\ Len(RuleCalls) = 2
    /\ IsFormattingError(Nth(EntryStarts, 2))

\* the rules that satisfy the data model: the template names the two placeholders
\* the miner tells the model to use
DataModelRules(rules) == {i \in 1..Len(rules) : {"clause_text", "rule_description"} \subseteq FieldNames(RuleTemplate(rules[i]))}

\* C12: every rule whose template references the two placeholders clause_text
\* and rule_description is filled by validate_shariah_compliance: its report
\* entry is an assessment, not a formatting error, and its generation call is made.
C12_DataModelRuleIsFillable ==
    val_out # None =>
        LET rules == val_in.agent.explicit_rules
        IN  /\ \A k \in DataModelRules(rules) : ~IsFormattingError(Nth(EntryStarts, k))
            /\ Len(RuleCalls) >= Cardinality(DataModelRules(rules))

\* ---------------------------------------------------------------- the miner
\* the text holds the no-rules sentinel, in whatever casing
HasMinerSentinel(text) == Contains(Lower(text), MinerSentinelLower)

ExtractCalls == {k \in 1..Len(miner_calls) : miner_calls[k].agent = "SRMA extract"}

FormatCalls == {k \in 1..Len(miner_calls) : miner_calls[k].agent = "SRMA format"}

\* C13: whenever the text the extraction call returned holds the sentinel
\* "No explicit rules found" in any casing, the chunk has no candidate,
\* whatever other lines the text holds.
C13_SentinelGivesNoCandidates ==
    (miner_calls # <<>> /\ Len(miner_calls) \in ExtractCalls /\ HasMinerSentinel(Returned(miner_calls[Len(miner_calls)])))
        => potential_rules_texts = <<>>

\* C14: _format_rule_to_json_structure never raises, whatever text the model
\* gave: it returns a rule or None, and a fenced output is decoded without its fence.
C14_NormalizeNeverRaises == miner_pc # "Raised" /\ miner_exc = None

\* the JSON object a model output holds once blanks and plain fences are set aside
Payload(text) == SelectSeq(text, LAMBDA t : t \notin {WS, NL, Fence})

HoldsObject(text) == Len(Payload(text)) = 1 /\ Payload(text)[1] \in DOMAIN JsonObjects

\* the formatting calls that were answered with a JSON object
ObjectCalls ==
    {k \in FormatCalls : ~miner_calls[k].failed /\ HoldsObject(miner_calls[k].backend.text)}

\* C18: mine_rules_from_document returns exactly the rules its formatting calls
\* gave, in the order of the calls, and a chunk whose extraction text holds
\* the sentinel contributes nothing: no candidate of it is formatted.
C18_DocumentYieldIsNonNullNormalizations ==
    miner_pc = "Returned" =>
        /\ Len(all_formatted_rules) = Cardinality(ObjectCalls)
        /\ \A k \in 1..Len(all_formatted_rules) :
              LET call == miner_calls[Nth(ObjectCalls, k)]
              IN  all_formatted_rules[k] = format_rule_to_json_structure(call.bindings.rule_text, call.bindings.standard_name,
                                                                          call.bindings.original_chunk_ref_snippet, call.backend)
        /\ \A k \in ExtractCalls :
              HasMinerSentinel(Returned(miner_calls[k])) => (k + 1 \notin FormatCalls)

\* C19: the rule ids of the rules one mine_rules_from_document call returns are
\* pairwise distinct.
C19_RuleIdsDistinct ==
    miner_pc = "Returned" =>
        \A a, b \in 1..Len(all_formatted_rules) : a # b => all_formatted_rules[a].rule_id # all_formatted_rules[b].rule_id

RequiredFields == {"rule_id", "standard_ref", "principle_keywords", "description", "validation_query_template"}

\* C20: every rule _format_rule_to_json_structure returned has the five required
\* fields; rule_id, standard_ref, description and validation_query_template
\* hold their computed default where the model left them out or falsy;
\* principle_keywords is the empty list where the model left it out, and an
\* empty list the model gave is kept.
C20_RequiredFieldsDefaulted ==
    miner_pc # "Raised" =>
        /\ Len(all_formatted_rules) = Cardinality(ObjectCalls)
        /\ \A k \in 1..Len(all_formatted_rules) :
              LET rule == all_formatted_rules[k]
                  call == miner_calls[Nth(ObjectCalls, k)]
                  given == JsonObjects[Payload(call.backend.text)[1]]
                  default == KeysToEnsure(call.bindings.rule_text, call.bindings.standard_name)
              IN  /\ RequiredFields \subseteq DOMAIN rule
                  /\ \A key \in RequiredFields \ {"principle_keywords"} :
                        (key \notin DOMAIN given \/ ~JTruthy(given[key])) => (rule[key] = default[key] /\ JTruthy(rule[key]))
                  /\ "principle_keywords" \notin DOMAIN given => rule["principle_keywords"] = JList(<<>>)
                  /\ ("principle_keywords" \in DOMAIN given /\ given["principle_keywords"] = JList(<<>>))
                        => rule["principle_keywords"] = JList(<<>>)

\* one call returned a rule for an empty object, another for an object of empty values
C20_Witness ==
    /\ miner_pc = "Returned"
    /\ \E a, b \in ObjectCalls :
          /\ JsonObjects[Payload(miner_calls[a].backend.text)[1]] = <<>>
          /\ Payload(miner_calls[b].backend.text)[1] = "{empty values}"
    /\ Len(all_formatted_rules) >= 2

\* ---------------------------------------------------------------- the batch
\* the rules mining a file of the batch gives: none when the file cannot be loaded
Yield(ss_filename) == IF ss_corpus[ss_filename].loads THEN ss_corpus[ss_filename].rules ELSE <<>>

\* the rules of the files of a list, in the order of the list
RECURSIVE CombinedYield(_)
CombinedYield(filenames) == IF filenames = <<>> THEN <<>> ELSE Yield(Head(filenames)) \o CombinedYield(Tail(filenames))

\* mine_rules_from_document_list has been entered and is over
BatchEnded == batch_pc \in {"Returned", "Raised"}

\* C15: mine_rules_from_document_list returns, and it returns True exactly when
\* mining gives at least one rule for at least one file of the list.
C15_BatchTrueIffRuleExtracted ==
    BatchEnded =>
        /\ batch_pc = "Returned"
        /\ batch_ret = TRUE <=> Truthy(CombinedYield(ss_document_filenames))

\* C16: when a file of the list cannot be loaded, the batch skips it, goes on
\* through every other file of the list, and returns True exactly when the other
\* files give at least one rule.
C16_IngestionFailureSkipsDocument ==
    (BatchEnded /\ \E k \in 1..Len(ss_document_filenames) : ~ss_corpus[ss_document_filenames[k]].loads) =>
        /\ batch_pc = "Returned"
        /\ file_k = Len(ss_document_filenames) + 1
        /\ batch_ret = Truthy(CombinedYield(SelectSeq(ss_document_filenames, LAMBDA f : ss_corpus[f].loads)))

\* C17: when every file of the list gives at least one rule, the batch writes
\* one file per document holding that document's rules and one combined file
\* holding the rules of all documents in list order, and returns True.
C17_BatchWritesIndividualAndCombinedFiles ==
    (/\ BatchEnded
     /\ ss_document_filenames # <<>>
     /\ \A k \in 1..Len(ss_document_filenames) : Truthy(Yield(ss_document_filenames[k]))) =>
        /\ batch_pc = "Returned"
        /\ batch_ret = TRUE
        /\ \A k \in 1..Len(ss_document_filenames) :
              /\ IndividualOutputPath(ss_document_filenames[k]) \in DOMAIN output_files
              /\ output_files[IndividualOutputPath(ss_document_filenames[k])] = Yield(ss_document_filenames[k])
        /\ CombinedOutputPath \in DOMAIN output_files
        /\ output_files[CombinedOutputPath] = CombinedYield(ss_document_filenames)

\* ---------------------------------------------------------------- the miner's methods, call by call
FormatRets == {k \in 1..Len(unit_calls) : unit_calls[k].fn = "format"}

ExtractRets == {k \in 1..Len(unit_calls) : unit_calls[k].fn = "extract"}

\* the format calls that returned a rule: what the batch writes to its files
RuleRets == {k \in FormatRets : ~IsRaise(unit_calls[k].ret) /\ unit_calls[k].ret # None}

\* C21: every rule _format_rule_to_json_structure returns (the records
\* mine_rules_from_document_list then writes unchanged) has principle_keywords,
\* and its value is an array, whatever the model gave for that field.
C21_KeywordsAlwaysArray ==
    \A k \in RuleRets :
        /\ "principle_keywords" \in DOMAIN unit_calls[k].ret
        /\ unit_calls[k].ret["principle_keywords"].t = "list"

\* the lines of a text: what lies between one line break (or the start) and the next (or the end)
TextLines(text) ==
    LET breaks == {i \in 1..Len(text) : text[i] = NL}
        starts == {0} \cup breaks
        EndOf(b) == IF \E c \in breaks : c > b THEN (CHOOSE c \in breaks : c > b /\ \A d \in breaks : d > b => c <= d) - 1 ELSE Len(text)
    IN  [k \in 1..Cardinality(starts) |-> SubSeq(text, Nth(starts, k) + 1, EndOf(Nth(starts, k)))]

\* a line trimmed, without one leading "- ", trimmed
Trimmed(line) ==
    LET t == Strip(line)
    IN  IF Len(t) >= 2 /\ t[1] = Dash /\ t[2] = WS THEN Strip(SubSeq(t, 3, Len(t))) ELSE t

\* the text an extraction call worked on
RawText(call) == IF call.backend.throws THEN ErrorText(call.backend.text) ELSE call.backend.text

\* C22: when the generation text holds no sentinel, _extract_potential_rules_from_chunk
\* returns, in their order, exactly the lines that are at least 16 characters
\* long once trimmed and freed of one leading "- "; shorter and empty lines are dropped.
C22_CandidatesAreLinesOfSixteenOrMore ==
    \A c \in ExtractRets :
        ~HasMinerSentinel(RawText(unit_calls[c])) =>
            LET lines == TextLines(RawText(unit_calls[c]))
                kept == {i \in 1..Len(lines) : CharLen(Trimmed(lines[i])) >= 16}
                ret == unit_calls[c].ret
            IN  /\ Len(ret) = Cardinality(kept)
                /\ \A k \in 1..Len(ret) : ret[k] = Trimmed(lines[Nth(kept, k)])

\* a marked line of 16 characters is kept, a marked line of 15 is dropped
C22_Witness ==
    \E c \in ExtractRets :
        /\ unit_calls[c].backend.text = <<WS, Dash, WS, WS, "Riba", WS, "is", WS, "unlawful", WS, NL, Dash, WS, "Riba", WS, "is", WS, "illegal">>
        /\ ~unit_calls[c].backend.throws
        /\ unit_calls[c].ret = << <<"Riba", WS, "is", WS, "unlawful">> >>

\* what the first four words of the sample sentences give
ExpectedWordPart(rule_text) ==
    CASE rule_text = <<"It", WS, "is", WS, "not", WS, "permitted", WS, "sell", WS, "goods">> -> "IT_IS_NOT_PERMITTED"
      [] rule_text = <<"Riba", ",", WS, "is", WS, WS, "unlawful", ".">> -> "RIBA_IS_UNLAWFUL"
      [] rule_text = <<"don", "'", "t", WS, "sell", WS, Dash, WS, "goods">> -> "DONT_SELL_GOODS"
      [] rule_text = <<"(", ".", ")", WS, Dash, Dash, WS, ":">> -> "RULE"

\* the short label of the sample standard names
ExpectedLabel(name) ==
    CASE name = <<"AAOIFI", WS, "Shari'ah", WS, "Standard", WS, "(", "ss_09_ijarah", ")">> -> "SSSS_Unknown_ss_09_ijarah"
      [] name = <<"Shari'ah", WS, "standard", WS, "No.", WS, "(", "9", ")", WS, "Ijarah">> -> "SS9_9"
      [] name = <<"Ijarah", WS, "Standard">> -> "SSSS_Unknown_Standard"

\* C26: the rule-id prefix of a _format_rule_to_json_structure call is the short
\* label of the standard, "_", and the first four words of the sentence
\* upper-cased and joined by "_" ("RULE" when the sentence has no word); two
\* calls with the same sentence and standard name have the same prefix,
\* wherever they stand among the calls and whatever the model answered.
C26_RuleIdPrefixFromInputsOnly ==
    /\ \A k \in FormatRets :
          unit_calls[k].args.generated_rule_id_prefix
              = ExpectedLabel(unit_calls[k].args.standard_name) \o "_" \o ExpectedWordPart(unit_calls[k].args.rule_text)
    /\ \A a, b \in FormatRets :
          (/\ unit_calls[a].args.rule_text = unit_calls[b].args.rule_text
           /\ unit_calls[a].args.standard_name = unit_calls[b].args.standard_name)
              => unit_calls[a].args.generated_rule_id_prefix = unit_calls[b].args.generated_rule_id_prefix

\* the same sentence formatted twice, with two different answers of the model
C26_Witness ==
    /\ Len(unit_calls) = 2
    /\ FormatRets = {1, 2}
    /\ unit_calls[1].args.rule_text = <<"It", WS, "is", WS, "not", WS, "permitted", WS, "sell", WS, "goods">>
    /\ unit_calls[2].args.rule_text = unit_calls[1].args.rule_text
    /\ unit_calls[2].args.standard_name = unit_calls[1].args.standard_name
    /\ unit_calls[1].backend # unit_calls[2].backend
    /\ unit_calls[2].args.generated_rule_id_prefix = "SSSS_Unknown_ss_09_ijarah_IT_IS_NOT_PERMITTED"

\* ---------------------------------------------------------------- the order of the stages
\* the stage an external call belongs to
StageOf(call) ==
    CASE call.agent = "KEEA" -> 1
      [] call.agent = "orchestrator" -> 2
      [] call.agent = "AISGA" -> 3
      [] call.agent \in {"SCVA rule", "SCVA"} -> 4
      [] call.agent = "ISCCA" -> 5

\* the generation calls an agent has made in this run
GenCallsOf(agent) == {i \in 1..Len(calls) : calls[i].op = "generate" /\ calls[i].agent = agent}

\* the similarity searches the orchestrator has made on a store in this run
SearchesOn(store) == {i \in 1..Len(calls) : calls[i].op = "search" /\ calls[i].agent = "orchestrator" /\ calls[i].store = store}

\* the result field a stage leaves behind
StageField(stage) ==
    CASE stage = 1 -> "aisga_input_ambiguity_focus"
      [] stage = 2 -> "aisga_input_fas_context"
      [] stage = 3 -> "suggested_text_by_aisga"
      [] stage = 4 -> "shariah_validation_by_scva"

\* C23: in one run_asave_orchestration_flow call the external calls are made in
\* the order ambiguity detection, context retrieval, suggestion, per-rule and
\* overall compliance, consistency; a call of a stage is made only when the
\* result of the stage before it is in hand; a run that reaches its end has made
\* each stage's call once (one per-rule call for each rule that can be
\* filled, one SS retrieval when an SS store is loaded); a halted run has
\* made the calls of stages 1 to 3 once and none of a later stage.
C23_StagesInOrder ==
    /\ \A i, j \in 1..Len(calls) : i < j => StageOf(calls[i]) <= StageOf(calls[j])
    /\ \A i \in 1..Len(calls) : \A st \in 1..(StageOf(calls[i]) - 1) : StageField(st) \in DOMAIN results
    /\ pc \in {"Done", "Halted"} =>
          /\ GenCallsOf("KEEA") = {1}
          /\ Cardinality(SearchesOn(fas_vector_store_global)) = 1
          /\ Cardinality({i \in 1..Len(calls) : StageOf(calls[i]) = 2})
                = IF ss_vector_store_global = None THEN 1 ELSE 2
          /\ Cardinality(GenCallsOf("AISGA")) = 1
    /\ pc = "Done" =>
          /\ Cardinality(GenCallsOf("SCVA rule")) = Cardinality(Fillable(LoadedRules))
          /\ Cardinality(GenCallsOf("SCVA")) = 1
          /\ Cardinality(GenCallsOf("ISCCA")) = 1
          /\ calls[Len(calls)].agent = "ISCCA"
    /\ pc = "Halted" =>
          /\ calls[Len(calls)].agent = "AISGA"
          /\ \A i \in 1..Len(calls) : StageOf(calls[i]) <= 3

\* a complete run with an SS store loaded and a per-rule call made
C23_Witness ==
    /\ pc = "Done"
    /\ ss_vector_store_global # None
    /\ Cardinality(SearchesOn(ss_vector_store_global)) = 1
    /\ GenCallsOf("SCVA rule") # {}
    /\ Len(LoadedRules) > Cardinality(GenCallsOf("SCVA rule"))

\* C25: a generate() call whose template names a placeholder that the bindings
\* do not hold ends with an exception of its own, not with a result like the
\* one a failed backend call gives.
C25_UnboundPlaceholderIsBindingError ==
    (gen_out # None /\ ~(gen_in.template_vars \subseteq DOMAIN gen_in.kwargs))
        => (IsRaise(gen_out) /\ "text" \notin DOMAIN gen_out)

\* C28: when the extraction call fails, the chunk has no candidate and no
\* formatting call is made for it.
C28_FailedExtractionGivesNoCandidates ==
    /\ (miner_calls # <<>> /\ Len(miner_calls) \in ExtractCalls /\ miner_calls[Len(miner_calls)].failed)
          => potential_rules_texts = <<>>
    /\ \A k \in ExtractCalls : miner_calls[k].failed => (k + 1 \notin FormatCalls)

\* C29: the query validate_shariah_compliance sends for a rule that carries the
\* miner's default template holds the proposed clause text.
C29_DefaultTemplateQueryHoldsClause ==
    val_out # None =>
        LET rules == val_in.agent.explicit_rules
        IN  \A k \in 1..Len(RuleCalls) :
                RuleTemplate(rules[Nth(Fillable(rules), k)]) = MinerDefaultTemplate
                    => \A i \in 1..Len(val_in.proposed_text) : Contains(RuleCalls[k].bindings.query, val_in.proposed_text[i])

\* ---------------------------------------------------------------- the selected standards
\* the three agents and the FAS store are all set
AllFourSet ==
    /\ extraction_agent_global # None
    /\ suggestion_agent_global # None
    /\ validation_agent_global # None
    /\ fas_vector_store_global # None

\* C24: whenever run_asave_orchestration_flow can pass its guard, the store the
\* extraction agent holds and the FAS store the validation agent holds are the
\* FAS store of the module, the SS store the validation agent holds is the SS
\* store of the module, and every retrieval of a run is made on these stores.
C24_AgentsHoldTheActiveStores ==
    AllFourSet =>
        /\ extraction_agent_global.vector_store = fas_vector_store_global
        /\ validation_agent_global.fas_retriever = fas_vector_store_global
        /\ validation_agent_global.ss_retriever = ss_vector_store_global
        /\ \A i \in 1..Len(calls) :
              calls[i].op = "search" =>
                  CASE calls[i].agent = "orchestrator" -> calls[i].store \in {fas_vector_store_global, ss_vector_store_global}
                    [] calls[i].agent = "SCVA" -> calls[i].store = ss_vector_store_global
                    [] calls[i].agent = "ISCCA" -> calls[i].store = fas_vector_store_global

\* a complete run on the second FAS and the second SS document, after the stores
\* of the first had been in use
C24_Witness ==
    /\ pc = "Done"
    /\ fas_vector_store_global = Store("fas_28_murabahah.pdf")
    /\ ss_vector_store_global = Store("ss_08_murabahah.pdf")
    /\ init_args = [fas_filename |-> "fas_32_ijarah.pdf", ss_filename |-> "ss_09_ijarah.pdf"]
    /\ init_ret = FALSE
    /\ \E i \in 1..Len(calls) : calls[i].agent = "SCVA" /\ calls[i].op = "search"
    /\ \E i \in 1..Len(calls) : calls[i].agent = "ISCCA" /\ calls[i].op = "search"

\* C27: whenever the latest initialize_components(fas, ss) call returned True,
\* the SS store of the module, which is the one the validation agent holds, is
\* absent or was built from the document ss.
C27_SsStoreIsOfTheSelectedDocument ==
    (init_args # None /\ init_ret = TRUE) =>
        /\ ss_vector_store_global \in {None, Store(init_args.ss_filename)}
        /\ validation_agent_global.ss_retriever \in {None, Store(init_args.ss_filename)}

\* C30: a run started while one of the three agents or the FAS store is unset
\* makes no call and returns the not-initialized error alone; a run goes past
\* its guard only with all four set; and after an initialize_components call
\* that returned True all four are set, so the run that follows is not refused.
C30_GuardAndInitializationAgree ==
    /\ pc = "Rejected" => (~AllFourSet /\ results = [error |-> NotInitializedError] /\ calls = <<>>)
    /\ pc \notin {"idle", "Rejected"} => AllFourSet
    /\ (init_args # None /\ init_ret = TRUE) => (AllFourSet /\ pc # "Rejected")

\* a run refused because the FAS store alone is unset, the three agents being built
C30_Witness ==
    /\ pc = "Rejected"
    /\ extraction_agent_global # None
    /\ suggestion_agent_global # None
    /\ validation_agent_global # None
    /\ fas_vector_store_global = None
====
